---- MODULE Spec2Model ----
(***************************************************************************)
(* Model of the LadyBug trading engine (rust-engine/src): the equities and *)
(* crypto cycle schedulers, the per-instrument decision step, the shared   *)
(* runtime state (trading_mode behind its RwLock, the enable flags, the    *)
(* trade ledger) and the Activity Ledger.                                  *)
(*                                                                         *)
(* Units: signals are in thousandths (0.15 is 150), prices and buying      *)
(* power are whole dollars, profit is in whole percent.                    *)
(***************************************************************************)
EXTENDS Integers, Sequences, FiniteSets, TLC

VARIABLES
    trading_mode,            \* AppState.trading_mode (the value behind the RwLock)
    mode_readers,            \* tasks holding a read guard on trading_mode
    mode_queue,              \* FIFO of tasks waiting for the trading_mode lock
    trading_enabled,         \* AppState.trading_enabled
    crypto_trading_enabled,  \* AppState.crypto_trading_enabled
    trade_history,           \* AppState.trade_history: Vec<TradeRecord>
    logger,                  \* ActivityLogger.logs, oldest entry first
    pc,                      \* position of each scheduler task in its loop
    symbols,                 \* the symbol list read at the start of a task's cycle
    idx,                     \* index of the for-loop over symbols (1-based)
    counts,                  \* the cycle's counters (successful_analyses, ...)
    events,                  \* what the task did in the current cycle, in order
    last,                    \* the record of the latest instrument step, until its sleep ends
    cycle_no,                \* number of cycles each task has started
    ops,                     \* instrument steps and API requests left to explore
    api_pc,                  \* position of the set_trading_mode handler
    api_req,                 \* the mode the handler was asked to set, and the cycles then in flight
    logs,                    \* ActivityLogger.logs as the map it is: the ids stored
    timestamps,                \* the timestamp of every entry ever put in, by id
    log_pc,                  \* position of each task inside ActivityLogger::log
    log_oldest,              \* the key a task's min_by_key found
    log_overlap,             \* some log call began while another one was running
    portfolio_history,       \* AppState.portfolio_history: Vec<PortfolioSnapshot>
    portfolio_task,          \* position of portfolio_tracking_loop, and what its latest get_account answered
    ledger_ops,              \* log calls and snapshots left to explore
    ny_time,                 \* the wall clock in New York: weekday (1 = Monday) and minute of the day
    now,                     \* trading_loop's `now`: the time its latest tick read
    venue,                   \* what the venue answers a sized BUY: the account's buying power and the latest price
    wire,                    \* what the venue answers the HTTP requests of one gateway call
    reply,                   \* what the latest gateway call or indicator function returned
    sentiment_cache,         \* NewsAggregator.sentiment_cache: symbol -> score
    bars,                    \* the bar series handed to the indicator functions (closes)
    manual,                  \* what the latest manual close handler read, requested, appended and returned
    holdings,                \* the symbols held at the venue
    closers,                 \* position of each task that closes a holding, and the positions it read
    locks,                   \* each RwLock of AppState: the guards held and the requests waiting, in order
    lock_pc                  \* what each task has still to do with the locks, and whether it waits for one

vars == <<trading_mode, mode_readers, mode_queue, trading_enabled,
          crypto_trading_enabled, trade_history, logger, pc, symbols, idx,
          counts, events, last, cycle_no, ops, api_pc, api_req,
          logs, timestamps, log_pc, log_oldest, log_overlap, portfolio_history, portfolio_task,
          ledger_ops, ny_time, now, venue, wire, reply, sentiment_cache, bars,
          manual, holdings, closers, locks, lock_pc>>

\* the variables of the engine's cycles and handlers
engine_vars == <<trading_mode, mode_readers, mode_queue, trading_enabled,
                 crypto_trading_enabled, trade_history, logger, pc, symbols, idx,
                 counts, events, last, cycle_no, ops, api_pc, api_req, ny_time, now,
                 venue, wire, reply, sentiment_cache, bars, manual, holdings, closers,
                 locks, lock_pc>>

\* the variables of the gateways, the sentiment cache and the indicators,
\* taken on their own
gateway_vars == <<wire, reply, sentiment_cache, bars, manual, holdings, closers,
                  locks, lock_pc>>

\* the variables of the closing tasks, taken step by step
close_vars == <<holdings, closers>>

\* the variables of the locks, taken acquisition by acquisition
lock_vars == <<locks, lock_pc>>

\* the variables of the two bounded ledgers, taken step by step
ledger_vars == <<logs, timestamps, log_pc, log_oldest, log_overlap, portfolio_history, portfolio_task,
                 ledger_ops>>

----------------------------------------------------------------------------
(* Bounds of the model *)

\* number of symbols of a mode's list a cycle iterates over (a prefix)
MaxSyms == 2

\* number of sized BUY steps explored from one answer of the venue
MaxSizingOps == 1
\* operations (instrument steps and API requests) explored in a run of Spec,
\* where the gateway answers an instrument step in every way it can
MaxOps == 2
\* operations explored in a run of SpecCycle, where the gateway answers an
\* instrument step in one way for each value the step can return
MaxCycleOps == 3
\* calls of ActivityLogger::log explored in a run of SpecLogger
MaxLogCalls == 5
\* iterations of portfolio_tracking_loop explored in a run of SpecPortfolio
MaxSnapshots == 5
\* instrument steps and manual close requests explored in a run of SpecManual
MaxManualOps == 2
\* instrument steps explored in a run of SpecGate
MaxGateOps == 1
\* times each closing task reads the position list in a run of SpecClose
MaxCloseRuns == 1

----------------------------------------------------------------------------
(* Program constants *)

\* ActivityLogger::new, max_logs
max_logs == 100
\* bars.len() >= 20
MIN_BARS == 20
\* signal > 0.15 / signal < -0.15, in thousandths
STOCK_SIGNAL_THRESHOLD == 150
\* signal > 0.20 / signal < -0.20, in thousandths
CRYPTO_SIGNAL_THRESHOLD == 200
\* profit_percent >= 15.0
STOCK_PROFIT_PERCENT == 15
\* profit_percent >= 20.0
CRYPTO_PROFIT_PERCENT == 20
\* &order_response.id[..8]
ORDER_ID_PREFIX == 8
\* if history.len() > 100
PORTFOLIO_CAP == 100

----------------------------------------------------------------------------
(* Small helpers *)

Min(a, b) == IF a < b THEN a ELSE b

Take(s, n) == SubSeq(s, 1, Min(n, Len(s)))

IsPrefix(s, t) == Len(s) <= Len(t) /\ SubSeq(t, 1, Len(s)) = s

Classes == {"stocks", "crypto"}

TradingModes == {"Conservative", "Volatile", "Hybrid"}

\* TradingMode::get_stocks
get_stocks(mode) ==
    CASE mode = "Conservative" ->
           <<"AAPL", "GOOGL", "MSFT", "TSLA", "AMZN", "NVDA", "META", "NFLX",
             "AMD", "INTC", "PYPL", "ADBE", "CRM", "ORCL", "QCOM", "TXN",
             "AVGO", "CSCO", "ASML", "AMAT">>
      [] mode = "Volatile" ->
           <<"TSLA", "GME", "PLTR", "RIOT", "MARA", "MSTR", "COIN", "ROKU",
             "SNAP", "SQ", "SHOP", "ARKK", "UPST", "CRWD", "ZM", "UBER",
             "LYFT", "DKNG", "HOOD", "SOFI">>
      [] OTHER ->
           <<"AAPL", "GOOGL", "MSFT", "AMZN", "META", "NFLX", "ADBE", "CRM",
             "ORCL", "CSCO", "TSLA", "GME", "PLTR", "RIOT", "COIN", "MSTR",
             "SNAP", "ROKU", "MARA", "ARKK">>

\* TradingMode::get_crypto
get_crypto(mode) ==
    CASE mode = "Conservative" -> <<"BTC/USD", "ETH/USD", "XRP/USD">>
      [] mode = "Volatile" ->
           <<"BTC/USD", "ETH/USD", "SOL/USD", "DOGE/USD", "AVAX/USD", "MATIC/USD">>
      [] OTHER -> <<"BTC/USD", "ETH/USD", "SOL/USD", "DOGE/USD", "AVAX/USD">>

\* the list a cycle of class t reads from mode (cut to the model's MaxSyms)
ModeSymbols(t, mode) ==
    IF t = "stocks" THEN Take(get_stocks(mode), MaxSyms)
                    ELSE Take(get_crypto(mode), MaxSyms)

----------------------------------------------------------------------------
(* Activity Ledger (activity.rs) *)

NoSymbol == "-"

ActivityLog(level, category, message, symbol) ==
    [level |-> level, category |-> category, message |-> message, symbol |-> symbol]

\* ActivityLogger::log on the ledger lg: insert, then evict the oldest entry
\* when the ledger holds more than max_logs entries
log(lg, entry) ==
    LET inserted == Append(lg, entry)
    IN  IF Len(inserted) > max_logs THEN Tail(inserted) ELSE inserted

RECURSIVE log_all(_, _)
log_all(lg, entries) ==
    IF entries = <<>> THEN lg
    ELSE log_all(log(lg, Head(entries)), Tail(entries))

----------------------------------------------------------------------------
(* Gateway answers (alpaca.rs, crypto.rs): what each call can return *)

\* AlpacaClient::get_latest_quote: a price, or Err ("err")
StockPrices == {115}
\* CryptoClient::get_latest_crypto_price
CryptoPrices == {120}
\* number of bars get_bars returns; "err" is a transport failure
BarCounts == {0, 19, 20}
\* TechnicalAnalysis::generate_signal over >= 20 bars: any value of [-1, 1]
\* (the random perturbation makes it an input here), sampled round the thresholds
StockSignals == {-151, -150, 0, 150, 151}
CryptoSignals == {-201, -200, 0, 200, 201}
\* Account.buying_power
BuyingPowers == {0, 10000}
\* place_order: transport failure, non-success status, or success with an
\* Order whose id has the given length
OrderResps == {"neterr", "rejected", "ok_id36", "ok_id4"}
\* close_position: transport failure, or any HTTP response
CloseResps == {"neterr", "http_ok", "http_rejected"}

\* a venue position; avg_entry_price 0 stands for an unparsable or zero string
Position(symbol, entry) ==
    [symbol |-> symbol, qty |-> 5, avg_entry_price |-> entry, current_price |-> 114]

OtherStock(symbol) == IF symbol = "AAPL" THEN "TSLA" ELSE "AAPL"

\* "BTC/USD" as the venue reports a held pair: without the separator
Unslashed(symbol) ==
    CASE symbol = "BTC/USD" -> "BTCUSD"
      [] symbol = "ETH/USD" -> "ETHUSD"
      [] symbol = "XRP/USD" -> "XRPUSD"
      [] symbol = "SOL/USD" -> "SOLUSD"
      [] OTHER -> "DOGEUSD"

\* avg_entry_price of a reported position: a gain of 15% and of 13.9% at the
\* stock price, of 20% and of 18.8% at the crypto price; 0 when unparsable
EntryPrices == {0, 100, 101}

\* position lists the gateway may report while symbol is processed
StockPositionLists(symbol) ==
    { <<>>, <<Position(OtherStock(symbol), 100)>> }
    \cup { <<Position(symbol, e)>> : e \in EntryPrices }

CryptoPositionLists(symbol) ==
    { <<>>, <<Position(Unslashed(symbol), 100)>> }
    \cup { <<Position(symbol, e)>> : e \in EntryPrices }

\* AlpacaClient::close_position / CryptoClient::close_crypto_position:
\* Err only when send() fails; any HTTP response is Ok(())
close_position(resp) == IF resp = "neterr" THEN "Err" ELSE "Ok"

\* AlpacaClient::place_order / CryptoClient::place_crypto_order:
\* Err when send() fails or the status is not a success
place_order(resp) == IF resp \in {"neterr", "rejected"} THEN "Err" ELSE "Ok"

OrderIdLen(resp) == IF resp = "ok_id36" THEN 36 ELSE 4

----------------------------------------------------------------------------
(* The instrument step *)

\* positions.iter().any(|p| p.symbol == symbol)
has_position(positions, symbol) ==
    \E i \in 1..Len(positions) : positions[i].symbol = symbol

\* positions.iter().find(|p| p.symbol == symbol)
find_position(positions, symbol) ==
    positions[CHOOSE i \in 1..Len(positions) :
                 /\ positions[i].symbol = symbol
                 /\ \A j \in 1..(i - 1) : positions[j].symbol # symbol]

\* if entry > 0.0 { ((current_price - entry) / entry) * 100.0 } else { 0.0 },
\* rounded down to a whole percent
profit_percent(current_price, entry) ==
    IF entry > 0 THEN ((current_price - entry) * 100) \div entry ELSE 0

Call(op, why, resp) == [op |-> op, why |-> why, resp |-> resp]

\* an order request: place_order(symbol, qty, "buy") and
\* place_crypto_order(symbol, &format!("{:.6}", qty), "buy"), qty as it is sent
OrderCall(op, why, resp, qty) == [op |-> op, why |-> why, resp |-> resp, qty |-> qty]

TradeRecord(symbol, action, quantity, price) ==
    [symbol |-> symbol, action |-> action, quantity |-> quantity, price |-> price]

\* the record of one instrument step: what the gateway answered, the calls
\* made in order, the value returned, and what was appended to the ledgers
StepRec(task, symbol, price, nbars, signal, positions, calls, ret, logged, trades) ==
    [task |-> task, sym |-> symbol, price |-> price, nbars |-> nbars, signal |-> signal,
     positions |-> positions, calls |-> calls, ret |-> ret, logs |-> logged,
     trades |-> trades]

NoStep == StepRec("-", "-", 0, -1, 0, <<>>, <<>>, "none", <<>>, <<>>)

\* the end of a step: [ret, calls, logs, trades], appended to what came before
End(ret, calls, logged, trades) ==
    [ret |-> ret, calls |-> calls, logs |-> logged, trades |-> trades]


\* the message of the Error entry logged for a failed order or close:
\* format!("Failed: {}", e), e carrying the venue's text for a rejection
FailedMsg(resp) ==
    IF resp = "rejected" THEN "Failed: venue message" ELSE "Failed: transport error"

\* stock_qty without the cap of 5000 dollars
stock_qty_uncapped(buying_power, current_price) ==
    (buying_power * 5) \div (current_price * 100)

\* let qty = ((buying_power * 0.05).min(5000.0) / current_price).floor() as i32
stock_qty(buying_power, current_price) ==
    Min(buying_power * 5, 5000 * 100) \div (current_price * 100)

\* if profit_percent >= 15.0, for a held instrument
stock_profit_due(positions, symbol, current_price) ==
    /\ has_position(positions, symbol)
    /\ profit_percent(current_price, find_position(positions, symbol).avg_entry_price)
          >= STOCK_PROFIT_PERCENT

\* stock_buy_cond with the comparison not strict
stock_buy_cond_not_strict(signal, held) == signal >= STOCK_SIGNAL_THRESHOLD /\ ~held

\* if signal > 0.15 && !has_position
stock_buy_cond(signal, held) == signal > STOCK_SIGNAL_THRESHOLD /\ ~held

\* stock_sell_cond with the comparison not strict
stock_sell_cond_not_strict(signal, held) == signal <= -STOCK_SIGNAL_THRESHOLD /\ held

\* else if signal < -0.15 && has_position
stock_sell_cond(signal, held) == signal < -STOCK_SIGNAL_THRESHOLD /\ held

\* the BUY branch of process_stock once the account is read:
\* the order is sized from buying_power and sent if qty > 0
stock_buy_sized(symbol, current_price, buying_power) ==
    LET sig == <<ActivityLog("info", "Signal", "BUY signal", symbol)>>
        acct_ok == Call("get_account", "buy", "ok")
        qty == stock_qty(buying_power, current_price)
    IN  IF qty > 0
        THEN { LET calls == <<acct_ok, OrderCall("place_order", "buy", resp, qty)>> IN
               IF place_order(resp) = "Ok"
               THEN IF OrderIdLen(resp) >= ORDER_ID_PREFIX
                    THEN End("buy", calls,
                             sig \o <<ActivityLog("success", "Trade", "BUY", symbol)>>,
                             <<TradeRecord(symbol, "BUY", qty, current_price)>>)
                    \* &order_response.id[..8] panics on a shorter id,
                    \* before anything is logged or recorded
                    ELSE End("panic", calls, sig, <<>>)
               ELSE End("neutral", calls,
                        sig \o <<ActivityLog("error", "Trade", FailedMsg(resp), symbol)>>,
                        <<>>)
               : resp \in OrderResps }
        \* warn!("Quantity would be 0, skipping trade"): console only
        ELSE { End("neutral", <<acct_ok>>, sig, <<>>) }

\* the BUY branch of process_stock
stock_buy(symbol, current_price) ==
    LET sig == <<ActivityLog("info", "Signal", "BUY signal", symbol)>>
    IN  { End("Err", <<Call("get_account", "buy", "err")>>, sig, <<>>) }
        \cup UNION { stock_buy_sized(symbol, current_price, bp) : bp \in BuyingPowers }

\* the SELL branch of process_stock
stock_sell(symbol, current_price, positions) ==
    LET sig == <<ActivityLog("info", "Signal", "SELL signal", symbol)>>
        pos == find_position(positions, symbol)
    IN  { LET calls == <<Call("close_position", "signal_sell", resp)>> IN
          IF close_position(resp) = "Ok"
          THEN End("sell", calls,
                   sig \o <<ActivityLog("success", "Trade", "SELL", symbol)>>,
                   <<TradeRecord(symbol, "SELL", pos.qty, current_price)>>)
          ELSE End("neutral", calls,
                   sig \o <<ActivityLog("error", "Trade", FailedMsg(resp), symbol)>>,
                   <<>>)
          : resp \in CloseResps }

\* process_stock from "if signal > 0.15 && !has_position" to its end
stock_signal_rules(symbol, current_price, signal, positions) ==
    LET held == has_position(positions, symbol) IN
    IF stock_buy_cond(signal, held) THEN stock_buy(symbol, current_price)
    ELSE IF stock_sell_cond(signal, held) THEN stock_sell(symbol, current_price, positions)
    ELSE { End("neutral", <<>>, <<>>, <<>>) }

\* what follows End e of the profit-take block: Ok returns "profit_taking";
\* Err only logs to the console and falls through to the signal rules
stock_after_profit_take(e, symbol, current_price, signal, positions) ==
    IF e.ret = "profit_taking" THEN { e }
    ELSE { End(r.ret, e.calls \o r.calls, e.logs \o r.logs, e.trades \o r.trades)
           : r \in stock_signal_rules(symbol, current_price, signal, positions) }

\* the profit-take block of process_stock: close, log, return on Ok
stock_profit_take(symbol) ==
    { LET calls == <<Call("close_position", "profit_take", resp)>> IN
      IF close_position(resp) = "Ok"
      THEN End("profit_taking", calls,
               <<ActivityLog("success", "Trade", "PROFIT TAKING", symbol)>>, <<>>)
      ELSE End("failed", calls, <<>>, <<>>)
      : resp \in CloseResps }

\* process_stock from the positions it read to its end
stock_decide(symbol, current_price, signal, positions) ==
    IF stock_profit_due(positions, symbol, current_price)
    THEN UNION { stock_after_profit_take(e, symbol, current_price, signal, positions)
                 : e \in stock_profit_take(symbol) }
    ELSE stock_signal_rules(symbol, current_price, signal, positions)

\* process_stock(state, symbol): every step the gateway's answers allow
process_stock(symbol) ==
    LET quote_ok == Call("get_latest_quote", "", "ok")
        bars_ok == Call("get_bars", "", "ok")
        pos_ok == Call("get_positions", "", "ok")
        price_log == <<ActivityLog("info", "Price", "price", NoSymbol)>>
        analysis == <<ActivityLog("info", "Analysis", "analysis", symbol)>>
    IN  { StepRec("stocks", symbol, 0, -1, 0, <<>>, <<Call("get_latest_quote", "", "err")>>, "Err",
                  <<ActivityLog("warning", "Data", "Price fetch failed", NoSymbol)>>, <<>>) }
        \cup UNION {
            { StepRec("stocks", symbol, p, -1, 0, <<>>, <<quote_ok, Call("get_bars", "", "err")>>,
                      "Err", price_log, <<>>) }
            \cup UNION {
                IF n < MIN_BARS
                THEN { StepRec("stocks", symbol, p, n, 0, <<>>, <<quote_ok, bars_ok>>,
                               "insufficient_data", price_log, <<>>) }
                ELSE UNION {
                    { StepRec("stocks", symbol, p, n, s, <<>>,
                              <<quote_ok, bars_ok, Call("get_positions", "", "err")>>,
                              "Err", price_log \o analysis, <<>>) }
                    \cup UNION {
                        { StepRec("stocks", symbol, p, n, s, positions,
                                  <<quote_ok, bars_ok, pos_ok>> \o e.calls, e.ret,
                                  price_log \o analysis \o e.logs, e.trades)
                          : e \in stock_decide(symbol, p, s, positions) }
                        : positions \in StockPositionLists(symbol) }
                    : s \in StockSignals }
                : n \in BarCounts }
            : p \in StockPrices }


\* let qty = (buying_power * 0.02).min(2000.0) / current_price, in millionths
\* as format!("{:.6}", qty) sends it
crypto_qty(buying_power, current_price) ==
    (Min(buying_power * 2, 2000 * 100) * 10000 + current_price \div 2) \div current_price

\* if qty > 0.0, on the unrounded quotient
crypto_qty_positive(buying_power, current_price) ==
    Min(buying_power * 2, 2000 * 100) > 0 /\ current_price > 0

\* if profit_percent >= 20.0, for a held pair
crypto_profit_due(positions, symbol, current_price) ==
    /\ has_position(positions, symbol)
    /\ profit_percent(current_price, find_position(positions, symbol).avg_entry_price)
          >= CRYPTO_PROFIT_PERCENT

\* if signal > 0.20 && !has_position
crypto_buy_cond(signal, held) == signal > CRYPTO_SIGNAL_THRESHOLD /\ ~held

\* else if signal < -0.20 && has_position
crypto_sell_cond(signal, held) == signal < -CRYPTO_SIGNAL_THRESHOLD /\ held

\* the BUY branch of process_crypto once the account is read:
\* the order is sized from buying_power and sent if qty > 0.0
crypto_buy_sized(symbol, current_price, buying_power) ==
    LET acct_ok == Call("get_account", "buy", "ok")
        qty == crypto_qty(buying_power, current_price)
    IN  IF crypto_qty_positive(buying_power, current_price)
        THEN { LET calls == <<acct_ok, OrderCall("place_crypto_order", "buy", resp, qty)>> IN
               IF place_order(resp) = "Ok"
               THEN End("buy", calls,
                        <<ActivityLog("success", "Trade", "BUY", symbol)>>,
                        <<TradeRecord(symbol, "BUY", qty, current_price)>>)
               ELSE End("neutral", calls, <<>>, <<>>)
               : resp \in OrderResps }
        ELSE { End("neutral", <<acct_ok>>, <<>>, <<>>) }

\* the BUY branch of process_crypto
crypto_buy(symbol, current_price) ==
    { End("Err", <<Call("get_account", "buy", "err")>>, <<>>, <<>>) }
    \cup UNION { crypto_buy_sized(symbol, current_price, bp) : bp \in BuyingPowers }

\* the SELL branch of process_crypto
crypto_sell(symbol, current_price, positions) ==
    LET pos == find_position(positions, symbol)
    IN  { LET calls == <<Call("close_crypto_position", "signal_sell", resp)>> IN
          IF close_position(resp) = "Ok"
          THEN End("sell", calls,
                   <<ActivityLog("success", "Trade", "SELL", symbol)>>,
                   <<TradeRecord(symbol, "SELL", pos.qty, current_price)>>)
          ELSE End("neutral", calls, <<>>, <<>>)
          : resp \in CloseResps }

\* process_crypto from "if signal > 0.20 && !has_position" to its end
crypto_signal_rules(symbol, current_price, signal, positions) ==
    LET held == has_position(positions, symbol) IN
    IF crypto_buy_cond(signal, held) THEN crypto_buy(symbol, current_price)
    ELSE IF crypto_sell_cond(signal, held) THEN crypto_sell(symbol, current_price, positions)
    ELSE { End("neutral", <<>>, <<>>, <<>>) }

\* what follows End e of the crypto profit-take block
crypto_after_profit_take(e, symbol, current_price, signal, positions) ==
    IF e.ret = "profit_taking" THEN { e }
    ELSE { End(r.ret, e.calls \o r.calls, e.logs \o r.logs, e.trades \o r.trades)
           : r \in crypto_signal_rules(symbol, current_price, signal, positions) }

\* the profit-take block of process_crypto
crypto_profit_take(symbol) ==
    { LET calls == <<Call("close_crypto_position", "profit_take", resp)>> IN
      IF close_position(resp) = "Ok"
      THEN End("profit_taking", calls,
               <<ActivityLog("success", "Trade", "CRYPTO PROFIT", symbol)>>, <<>>)
      ELSE End("failed", calls, <<>>, <<>>)
      : resp \in CloseResps }

\* process_crypto from the positions it read to its end
crypto_decide(symbol, current_price, signal, positions) ==
    IF crypto_profit_due(positions, symbol, current_price)
    THEN UNION { crypto_after_profit_take(e, symbol, current_price, signal, positions)
                 : e \in crypto_profit_take(symbol) }
    ELSE crypto_signal_rules(symbol, current_price, signal, positions)

\* process_crypto(state, symbol): every step the gateway's answers allow
process_crypto(symbol) ==
    LET quote_ok == Call("get_latest_crypto_price", "", "ok")
        bars_ok == Call("get_crypto_bars", "", "ok")
        price_log == <<ActivityLog("info", "Crypto Price", "price", NoSymbol)>>
        analysis == <<ActivityLog("info", "Analysis", "analysis", symbol)>>
        \* get_positions().await.unwrap_or_default(): an Err reads as no positions
        reads == { [call |-> Call("get_positions", "", "ok"), positions |-> l]
                   : l \in CryptoPositionLists(symbol) }
                 \cup { [call |-> Call("get_positions", "", "err"), positions |-> <<>>] }
    IN  { StepRec("crypto", symbol, 0, -1, 0, <<>>, <<Call("get_latest_crypto_price", "", "err")>>,
                  "Err", <<>>, <<>>) }
        \cup UNION {
            { StepRec("crypto", symbol, p, -1, 0, <<>>, <<quote_ok, Call("get_crypto_bars", "", "err")>>,
                      "Err", price_log, <<>>) }
            \cup UNION {
                IF n < MIN_BARS
                THEN { StepRec("crypto", symbol, p, n, 0, <<>>, <<quote_ok, bars_ok>>,
                               "insufficient_data", price_log, <<>>) }
                ELSE UNION { UNION {
                        { StepRec("crypto", symbol, p, n, s, rd.positions,
                                  <<quote_ok, bars_ok, rd.call>> \o e.calls, e.ret,
                                  price_log \o analysis \o e.logs, e.trades)
                          : e \in crypto_decide(symbol, p, s, rd.positions) }
                        : rd \in reads }
                    : s \in CryptoSignals }
                : n \in BarCounts }
            : p \in CryptoPrices }


----------------------------------------------------------------------------
(* The RwLock on trading_mode (tokio::sync::RwLock: fair, FIFO).  A task    *)
(* asks for the lock by joining the queue and is granted it at the head of  *)
(* the queue: a reader when no writer holds it, a writer when nobody does.  *)
(* No writer keeps its guard across a suspension point, so only readers are *)
(* ever seen holding the lock.                                              *)

Waiter(task, kind) == [task |-> task, kind |-> kind]

\* state.trading_mode.read().await is granted to task
read_granted(task) ==
    /\ mode_queue # <<>>
    /\ Head(mode_queue) = Waiter(task, "read")

\* state.trading_mode.write().await is granted to task
write_granted(task) ==
    /\ mode_queue # <<>>
    /\ Head(mode_queue) = Waiter(task, "write")
    /\ mode_readers = {}

----------------------------------------------------------------------------
(* The schedulers *)

ZeroCounts ==
    [successful_analyses |-> 0, failed_analyses |-> 0, buy_signals |-> 0,
     sell_signals |-> 0, neutral_signals |-> 0]

\* the match on process_stock's result in trading_loop
stock_count(c, ret) ==
    IF ret = "Err" THEN [c EXCEPT !.failed_analyses = @ + 1]
    ELSE [c EXCEPT !.successful_analyses = @ + 1,
                   !.buy_signals = IF ret = "buy" THEN @ + 1 ELSE @,
                   !.sell_signals = IF ret = "sell" THEN @ + 1 ELSE @,
                   !.neutral_signals = IF ret = "neutral" THEN @ + 1 ELSE @]

\* the match on process_crypto's result in crypto_trading_loop (no neutral counter)
crypto_count(c, ret) ==
    IF ret = "Err" THEN [c EXCEPT !.failed_analyses = @ + 1]
    ELSE [c EXCEPT !.successful_analyses = @ + 1,
                   !.buy_signals = IF ret = "buy" THEN @ + 1 ELSE @,
                   !.sell_signals = IF ret = "sell" THEN @ + 1 ELSE @]

\* loop_symbol with the list walked from its end
loop_symbol_reversed(t) == symbols[t][Len(symbols[t]) + 1 - idx[t]]

\* the symbol the for-loop of task t hands to the instrument step
loop_symbol(t) == symbols[t][idx[t]]

\* cycle_symbols with the list of the mode the engine started in
cycle_symbols_stale(t) == ModeSymbols(t, "Hybrid")

\* the list a starting cycle of task t reads: mode.get_stocks() / mode.get_crypto()
cycle_symbols(t) == ModeSymbols(t, trading_mode)

\* the summary entry logged at the end of a cycle
summary(category, c) ==
    ActivityLog("info", category,
                <<"Cycle complete", c.successful_analyses, c.buy_signals, c.sell_signals>>,
                NoSymbol)

handlers_unchanged ==
    /\ UNCHANGED <<trading_mode, trading_enabled, crypto_trading_enabled, api_pc, api_req>>
    /\ UNCHANGED <<ledger_vars, venue, gateway_vars>>
    /\ UNCHANGED ny_time

scheduler_unchanged ==
    /\ handlers_unchanged
    /\ UNCHANGED now

\* a time of the New York wall clock
NYTime(weekday, minutes) == [weekday |-> weekday, minutes |-> minutes]

\* is_market_open with the closing time let in
is_market_open_until_close(t) ==
    /\ t.weekday <= 5
    /\ t.minutes >= 9 * 60 + 30
    /\ t.minutes <= 16 * 60

\* let is_market_open = is_weekday && current_time >= market_open
\*                      && current_time < market_close
is_market_open(t) ==
    LET is_weekday == t.weekday <= 5
        market_open == 9 * 60 + 30
        market_close == 16 * 60
    IN  is_weekday /\ t.minutes >= market_open /\ t.minutes < market_close

\* StockTick with the enable flag not looked at
StockTick_flag_ignored ==
    /\ pc["stocks"] = "tick"
    /\ now' = ny_time
    /\ pc' = [pc EXCEPT !["stocks"] = "wait_mode"]
    /\ mode_queue' = Append(mode_queue, Waiter("stocks", "read"))
    /\ UNCHANGED <<mode_readers, trade_history, logger, symbols, idx, counts, events,
                   last, cycle_no, ops>>
    /\ handlers_unchanged

\* trading_loop from tick.tick() to state.trading_mode.read(): the enable flag
\* and the market-hours gate; a skipped tick changes nothing
StockTick ==
    /\ pc["stocks"] = "tick"
    /\ IF trading_enabled
       THEN /\ now' = ny_time
            /\ IF is_market_open(ny_time)
               THEN /\ pc' = [pc EXCEPT !["stocks"] = "wait_mode"]
                    /\ mode_queue' = Append(mode_queue, Waiter("stocks", "read"))
               ELSE UNCHANGED <<pc, mode_queue>>
       ELSE UNCHANGED <<now, pc, mode_queue>>
    /\ UNCHANGED <<mode_readers, trade_history, logger, symbols, idx, counts, events,
                   last, cycle_no, ops>>
    /\ handlers_unchanged

\* crypto_trading_loop from tick.tick() to state.trading_mode.read()
CryptoTick ==
    /\ pc["crypto"] = "tick"
    /\ IF crypto_trading_enabled
       THEN /\ pc' = [pc EXCEPT !["crypto"] = "wait_mode"]
            /\ mode_queue' = Append(mode_queue, Waiter("crypto", "read"))
       ELSE UNCHANGED <<pc, mode_queue>>
    /\ UNCHANGED <<mode_readers, trade_history, logger, symbols, idx, counts, events,
                   last, cycle_no, ops>>
    /\ scheduler_unchanged

\* the start of a cycle of task t: the read guard is taken, the symbol list is
\* read from the mode and the counters are zeroed
cycle_start(t, category, message) ==
    /\ pc[t] = "wait_mode"
    /\ read_granted(t)
    /\ mode_queue' = Tail(mode_queue)
    /\ mode_readers' = mode_readers \cup {t}
    /\ symbols' = [symbols EXCEPT ![t] = cycle_symbols(t)]
    /\ logger' = log(logger, ActivityLog("info", category, message, NoSymbol))
    /\ counts' = [counts EXCEPT ![t] = ZeroCounts]
    /\ idx' = [idx EXCEPT ![t] = 1]
    /\ events' = [events EXCEPT ![t] = <<>>]
    /\ cycle_no' = [cycle_no EXCEPT ![t] = @ + 1]
    /\ pc' = [pc EXCEPT ![t] = "step"]
    /\ UNCHANGED <<trade_history, last, ops>>
    /\ scheduler_unchanged

StockCycleStart == cycle_start("stocks", "Stocks", "Starting market analysis cycle")

CryptoCycleStart == cycle_start("crypto", "Crypto", "Starting crypto market analysis")

\* one iteration of the for-loop up to the sleep: the instrument step r is
\* taken and counted; a panic in the step ends the task and drops its guard
loop_step(t, r, counted) ==
    /\ last' = r
    /\ trade_history' = trade_history \o r.trades
    /\ logger' = log_all(logger, r.logs)
    /\ events' = [events EXCEPT ![t] = Append(@, <<"step", r.sym>>)]
    /\ ops' = ops - 1
    /\ IF r.ret = "panic"
       THEN /\ pc' = [pc EXCEPT ![t] = "dead"]
            /\ mode_readers' = mode_readers \ {t}
            /\ UNCHANGED counts
       ELSE /\ pc' = [pc EXCEPT ![t] = "sleep"]
            /\ counts' = [counts EXCEPT ![t] = counted]
            /\ UNCHANGED mode_readers
    /\ UNCHANGED <<mode_queue, symbols, idx, cycle_no>>
    /\ scheduler_unchanged

\* match process_stock(&state, symbol).await { ... } in trading_loop
StockStep ==
    /\ pc["stocks"] = "step"
    /\ ops > 0
    /\ \E r \in process_stock(loop_symbol("stocks")) :
          loop_step("stocks", r, stock_count(counts["stocks"], r.ret))

\* match process_crypto(&state, symbol).await { ... } in crypto_trading_loop
CryptoStep ==
    /\ pc["crypto"] = "step"
    /\ ops > 0
    /\ \E r \in process_crypto(loop_symbol("crypto")) :
          loop_step("crypto", r, crypto_count(counts["crypto"], r.ret))

\* of the steps S, one for each value a step can return
one_per_result(S) == { CHOOSE r \in S : r.ret = x : x \in { q.ret : q \in S } }

\* StockStep with the gateway's answers cut to one per returned value
StockStepOnce ==
    /\ pc["stocks"] = "step"
    /\ ops > 0
    /\ \E r \in one_per_result(process_stock(loop_symbol("stocks"))) :
          loop_step("stocks", r, stock_count(counts["stocks"], r.ret))

\* CryptoStep with the gateway's answers cut to one per returned value
CryptoStepOnce ==
    /\ pc["crypto"] = "step"
    /\ ops > 0
    /\ \E r \in one_per_result(process_crypto(loop_symbol("crypto"))) :
          loop_step("crypto", r, crypto_count(counts["crypto"], r.ret))

\* tokio::time::sleep(...) at the end of an iteration, then the next symbol,
\* or after the last one the summary, the end of the loop body (the read guard
\* on trading_mode is dropped there) and the wait for the next tick
loop_sleep(t, category) ==
    /\ pc[t] = "sleep"
    /\ events' = [events EXCEPT ![t] = Append(@, <<"sleep", symbols[t][idx[t]]>>)]
    /\ last' = IF last.task = t THEN NoStep ELSE last
    /\ IF idx[t] < Len(symbols[t])
       THEN /\ idx' = [idx EXCEPT ![t] = @ + 1]
            /\ pc' = [pc EXCEPT ![t] = "step"]
            /\ UNCHANGED <<logger, mode_readers>>
       ELSE /\ logger' = log(logger, summary(category, counts[t]))
            /\ mode_readers' = mode_readers \ {t}
            /\ pc' = [pc EXCEPT ![t] = "tick"]
            /\ UNCHANGED idx
    /\ UNCHANGED <<mode_queue, trade_history, symbols, counts, cycle_no, ops>>
    /\ scheduler_unchanged

StockSleep == loop_sleep("stocks", "Stocks")

CryptoSleep == loop_sleep("crypto", "Crypto")

----------------------------------------------------------------------------
(* The API handlers that write the shared runtime state *)

\* task t is inside the for-loop of a cycle
in_flight(t) == pc[t] \in {"step", "sleep"}

tasks_unchanged ==
    /\ UNCHANGED <<trade_history, pc, symbols, idx, counts, events, last, cycle_no>>
    /\ UNCHANGED <<ledger_vars, venue, gateway_vars>>
    /\ UNCHANGED <<ny_time, now>>

\* set_trading_mode up to state.trading_mode.write().await
SetTradingModeCall ==
    /\ api_pc = "idle"
    /\ ops > 0
    /\ \E mode \in TradingModes :
          api_req' = [mode |-> mode, during |-> {t \in Classes : in_flight(t)}]
    /\ api_pc' = "wait_write"
    /\ ops' = ops - 1
    /\ mode_queue' = Append(mode_queue, Waiter("set_trading_mode", "write"))
    /\ UNCHANGED <<trading_mode, mode_readers, trading_enabled, crypto_trading_enabled,
                   logger>>
    /\ tasks_unchanged

\* set_trading_mode from the granted write guard to its return
SetTradingModeWrite ==
    /\ api_pc = "wait_write"
    /\ write_granted("set_trading_mode")
    /\ mode_queue' = Tail(mode_queue)
    /\ trading_mode' = api_req.mode
    /\ logger' = log(logger, ActivityLog("success", "Config",
                                         <<"Trading mode set to", api_req.mode>>, NoSymbol))
    /\ api_pc' = "idle"
    /\ UNCHANGED <<mode_readers, trading_enabled, crypto_trading_enabled, api_req, ops>>
    /\ tasks_unchanged

\* toggle_trading
ToggleTrading ==
    /\ api_pc = "idle"
    /\ ops > 0
    /\ \E enabled \in BOOLEAN :
          /\ trading_enabled' = enabled
          /\ logger' = log(logger,
                IF enabled THEN ActivityLog("success", "System", "Trading ENABLED", NoSymbol)
                ELSE ActivityLog("warning", "System", "Trading DISABLED", NoSymbol))
    /\ ops' = ops - 1
    /\ UNCHANGED <<trading_mode, mode_readers, mode_queue, crypto_trading_enabled,
                   api_pc, api_req>>
    /\ tasks_unchanged

\* toggle_crypto_trading
ToggleCryptoTrading ==
    /\ api_pc = "idle"
    /\ ops > 0
    /\ \E enabled \in BOOLEAN :
          /\ crypto_trading_enabled' = enabled
          /\ logger' = log(logger,
                IF enabled THEN ActivityLog("success", "Crypto", "Crypto Trading ENABLED", NoSymbol)
                ELSE ActivityLog("warning", "Crypto", "Crypto Trading DISABLED", NoSymbol))
    /\ ops' = ops - 1
    /\ UNCHANGED <<trading_mode, mode_readers, mode_queue, trading_enabled,
                   api_pc, api_req>>
    /\ tasks_unchanged

----------------------------------------------------------------------------
(* The manual close handlers *)

\* let is_crypto = symbol.contains("/") || (symbol.ends_with("USD") &&
\* !symbol.starts_with("USD") && symbol.len() > 3), over the symbols of the model
is_crypto(symbol) ==
    symbol \in {"BTC/USD", "ETH/USD", "XRP/USD", "SOL/USD", "DOGE/USD", "AVAX/USD",
                "MATIC/USD", "BTCUSD", "ETHUSD", "XRPUSD", "SOLUSD", "DOGEUSD"}

\* the symbols a manual close is asked for
ManualSymbols == {"AAPL", "BTC/USD", "BTCUSD"}

\* position lists the gateway may report to a manual close
ManualPositionLists ==
    { <<>>, <<Position("AAPL", 100)>>, <<Position("BTCUSD", 100)>>,
      <<Position("AAPL", 100), Position("BTCUSD", 100)>> }

\* push_trade with the record put in front
push_trade_front(history, record) == <<record>> \o history

\* state.trade_history.write().await.push(record)
push_trade(history, record) == Append(history, record)

\* the TradeRecord a manual close appends for position pos
manual_record(pos) == TradeRecord(pos.symbol, "SELL", pos.qty, pos.current_price)

\* the close request a manual close sends for symbol
manual_close(symbol, resp) ==
    [op |-> IF is_crypto(symbol) THEN "close_crypto_position" ELSE "close_position",
     why |-> "manual", resp |-> resp, symbol |-> symbol]

\* what a manual close handler did: the position read and its answer, the
\* close requests sent in order, the records and entries appended, the
\* status returned and, for book_all_profits, <<closed_count, failed_count>>
Handled(handler, symbol, read, positions, ret, calls, trades, logged, json) ==
    [handler |-> handler, symbol |-> symbol, read |-> read, positions |-> positions,
     ret |-> ret, calls |-> calls, trades |-> trades, logs |-> logged, json |-> json]

NoManual == Handled("-", NoSymbol, "-", <<>>, "-", <<>>, <<>>, <<>>, <<>>)

\* book_profit_single: NOT_FOUND when the position read fails or does not
\* list the symbol; otherwise one close request, and on Ok one SELL record
\* and one "Manual Profit" entry
book_profit_single(symbol, read, positions, resp) ==
    IF read = "err" \/ ~has_position(positions, symbol)
    THEN Handled("book_profit_single", symbol, read, positions, "NOT_FOUND",
                 <<>>, <<>>, <<>>, <<>>)
    ELSE IF close_position(manual_close(symbol, resp).resp) = "Ok"
    THEN Handled("book_profit_single", symbol, read, positions, "OK",
                 <<manual_close(symbol, resp)>>,
                 <<manual_record(find_position(positions, symbol))>>,
                 <<ActivityLog("success", "Manual Profit", "position closed by user",
                               NoSymbol)>>,
                 <<>>)
    ELSE Handled("book_profit_single", symbol, read, positions, "INTERNAL_SERVER_ERROR",
                 <<manual_close(symbol, resp)>>, <<>>, <<>>, <<>>)

RECURSIVE push_all(_, _)
push_all(history, records) ==
    IF records = <<>> THEN history
    ELSE push_all(push_trade(history, Head(records)), Tail(records))

\* the handler's writes to the two ledgers, and what it did
handled(h) ==
    /\ manual' = h
    /\ trade_history' = push_all(trade_history, h.trades)
    /\ logger' = log_all(logger, h.logs)

BookProfitSingle ==
    /\ ops > 0
    /\ ops' = ops - 1
    /\ \E symbol \in ManualSymbols, read \in {"ok", "err"},
          positions \in ManualPositionLists, resp \in CloseResps :
          handled(book_profit_single(symbol, read, positions, resp))
    /\ UNCHANGED <<trading_mode, mode_readers, mode_queue, trading_enabled,
                   crypto_trading_enabled, pc, symbols, idx, counts, events, last,
                   cycle_no, api_pc, api_req, ny_time, now>>
    /\ UNCHANGED <<ledger_vars, venue, wire, reply, sentiment_cache, bars, close_vars,
                   lock_vars>>

\* book_all_calls leaving the loop at the first request that fails
RECURSIVE book_all_calls_until_failure(_, _)
book_all_calls_until_failure(positions, resps) ==
    IF positions = <<>> THEN <<>>
    ELSE <<manual_close(Head(positions).symbol, Head(resps))>>
         \o (IF close_position(Head(resps)) = "Err" THEN <<>>
             ELSE book_all_calls_until_failure(Tail(positions), Tail(resps)))

\* the close requests book_all_profits sends for the positions it read, resps
\* being the venue's answer to each request in turn
RECURSIVE book_all_calls(_, _)
book_all_calls(positions, resps) ==
    IF positions = <<>> THEN <<>>
    ELSE <<manual_close(Head(positions).symbol, Head(resps))>>
         \o book_all_calls(Tail(positions), Tail(resps))

\* the records book_all_profits appends for the positions it read
RECURSIVE book_all_records(_, _)
book_all_records(positions, resps) ==
    IF positions = <<>> THEN <<>>
    ELSE (IF close_position(manual_close(Head(positions).symbol, Head(resps)).resp) = "Ok"
          THEN <<manual_record(Head(positions))>> ELSE <<>>)
         \o book_all_records(Tail(positions), Tail(resps))

\* closed_count and failed_count after the loop over positions
RECURSIVE book_all_counts(_, _, _)
book_all_counts(calls, closed_count, failed_count) ==
    IF calls = <<>> THEN <<closed_count, failed_count>>
    ELSE IF close_position(Head(calls).resp) = "Ok"
    THEN book_all_counts(Tail(calls), closed_count + 1, failed_count)
    ELSE book_all_counts(Tail(calls), closed_count, failed_count + 1)

\* book_all_profits: an error when the position read fails; otherwise a close
\* request for each position in turn, a SELL record for each one answered,
\* and one "Manual Profit" entry at the end
book_all_profits(read, positions, resps) ==
    IF read = "err"
    THEN Handled("book_all_profits", NoSymbol, read, positions, "INTERNAL_SERVER_ERROR",
                 <<>>, <<>>, <<>>, <<>>)
    ELSE LET calls == book_all_calls(positions, resps)
             counted == book_all_counts(calls, 0, 0)
         IN  Handled("book_all_profits", NoSymbol, read, positions, "OK", calls,
                     book_all_records(positions, resps),
                     <<ActivityLog("success", "Manual Profit",
                                   <<"Closed positions", counted[1]>>, NoSymbol)>>,
                     counted)

BookAllProfits ==
    /\ ops > 0
    /\ ops' = ops - 1
    /\ \E read \in {"ok", "err"}, positions \in ManualPositionLists :
          \E resps \in [1..Len(positions) -> CloseResps] :
              handled(book_all_profits(read, positions, resps))
    /\ UNCHANGED <<trading_mode, mode_readers, mode_queue, trading_enabled,
                   crypto_trading_enabled, pc, symbols, idx, counts, events, last,
                   cycle_no, api_pc, api_req, ny_time, now>>
    /\ UNCHANGED <<ledger_vars, venue, wire, reply, sentiment_cache, bars, close_vars,
                   lock_vars>>

----------------------------------------------------------------------------
(* Closing a holding, step by step: the cycle's signal sell and the two     *)
(* manual close handlers each read the position list, then send the close  *)
(* request, then append the record; every await between them is a point    *)
(* where another task may run.                                             *)

Closers == {"process_stock", "book_profit_single", "book_all_profits"}

\* the instruments held at the venue when the run starts, in the order the
\* venue lists them
CloseSymbols == <<"AAPL", "TSLA">>

Closer(at, todo, runs) == [pc |-> at, todo |-> todo, runs |-> runs]

\* the position list the venue reports for holdings h
held_positions(h) ==
    LET Listed(symbol) == symbol \in h
        listed == SelectSeq(CloseSymbols, Listed)
    IN  [i \in 1..Len(listed) |-> Position(listed[i], 101)]

\* the positions task t goes on to close after reading the list: the one of
\* its symbol, when listed (and, in the cycle, when the signal says SELL),
\* or all of them
to_close(t, symbol, sell, positions) ==
    IF t = "book_all_profits" THEN positions
    ELSE IF has_position(positions, symbol) /\ (t = "process_stock" => sell)
    THEN <<find_position(positions, symbol)>>
    ELSE <<>>

\* the TradeRecord task t appends for position pos
close_record(t, pos) ==
    IF t = "process_stock"
    THEN TradeRecord(pos.symbol, "SELL", pos.qty, CHOOSE p \in StockPrices : TRUE)
    ELSE manual_record(pos)

\* the entries task t adds to the Activity Ledger when its close of symbol was
\* answered
close_logged(t, symbol) ==
    CASE t = "process_stock" -> <<ActivityLog("success", "Trade", "SELL", symbol)>>
      [] t = "book_profit_single" ->
            <<ActivityLog("success", "Manual Profit", "position closed by user", NoSymbol)>>
      [] OTHER -> <<>>

\* book_all_profits after its loop
all_closed(t, todo) ==
    IF t = "book_all_profits" /\ todo = <<>>
    THEN <<ActivityLog("success", "Manual Profit", "Closed positions", NoSymbol)>>
    ELSE <<>>

close_unchanged ==
    /\ UNCHANGED <<trading_mode, mode_readers, mode_queue, trading_enabled,
                   crypto_trading_enabled, pc, symbols, idx, counts, events, last,
                   cycle_no, ops, api_pc, api_req, ny_time, now>>
    /\ UNCHANGED <<ledger_vars, venue, wire, reply, sentiment_cache, bars, manual,
                   lock_vars>>

\* get_positions().await in process_stock, book_profit_single, book_all_profits
CloserRead(t) ==
    /\ closers[t].pc = "idle"
    /\ closers[t].runs > 0
    /\ \E read \in {"ok", "err"}, symbol \in {"AAPL", "TSLA"}, sell \in BOOLEAN :
          LET todo == IF read = "err" THEN <<>>
                      ELSE to_close(t, symbol, sell, held_positions(holdings))
          IN  /\ closers' = [closers EXCEPT
                    ![t] = Closer(IF todo = <<>> THEN "idle" ELSE "close", todo,
                                  closers[t].runs - 1)]
              /\ logger' = log_all(logger, IF read = "ok" THEN all_closed(t, todo) ELSE <<>>)
    /\ UNCHANGED <<trade_history, holdings>>
    /\ close_unchanged

\* close_position(symbol).await: the venue closes the holding it has and
\* refuses to close one it has not; the request may also fail on the way
CloserClose(t) ==
    /\ closers[t].pc = "close"
    /\ \E sent \in BOOLEAN :
          LET pos == Head(closers[t].todo)
              resp == IF ~sent THEN "neterr"
                      ELSE IF pos.symbol \in holdings THEN "http_ok" ELSE "http_rejected"
              rest == Tail(closers[t].todo)
          IN  /\ holdings' = IF resp = "http_ok" THEN holdings \ {pos.symbol} ELSE holdings
              /\ IF close_position(resp) = "Ok"
                 THEN /\ closers' = [closers EXCEPT ![t].pc = "append"]
                      /\ UNCHANGED logger
                 ELSE /\ closers' = [closers EXCEPT
                            ![t] = Closer(IF rest = <<>> THEN "idle" ELSE "close", rest,
                                          closers[t].runs)]
                      /\ logger' = log_all(logger,
                            IF t = "process_stock"
                            THEN <<ActivityLog("error", "Trade", FailedMsg(resp), pos.symbol)>>
                            ELSE all_closed(t, rest))
    /\ UNCHANGED trade_history
    /\ close_unchanged

\* state.trade_history.write().await.push(..) and the entry that goes with it
CloserAppend(t) ==
    /\ closers[t].pc = "append"
    /\ LET pos == Head(closers[t].todo)
           rest == Tail(closers[t].todo)
       IN  /\ trade_history' = push_trade(trade_history, close_record(t, pos))
           /\ logger' = log_all(logger, close_logged(t, pos.symbol) \o all_closed(t, rest))
           /\ closers' = [closers EXCEPT
                 ![t] = Closer(IF rest = <<>> THEN "idle" ELSE "close", rest,
                               closers[t].runs)]
    /\ UNCHANGED holdings
    /\ close_unchanged

----------------------------------------------------------------------------
(* The locks of AppState, acquisition by acquisition.  Each is a tokio      *)
(* RwLock: requests are served in the order they were made, a read request *)
(* is granted while no write guard is held, a write request while no guard *)
(* is held at all.                                                         *)

Locks == {"trading_mode", "trading_enabled", "crypto_trading_enabled",
          "trade_history", "portfolio_history"}

\* the three spawned loops, and the handler of one API request at a time
LockTasks == {"trading_loop", "crypto_trading_loop", "portfolio_tracking_loop", "api"}

\* lock.read().await / lock.write().await, the guard bound or used
Acquire(lock, mode) == [op |-> "acquire", lock |-> lock, mode |-> mode]
\* the guard dropped
Release(lock) == [op |-> "release", lock |-> lock, mode |-> "-"]
\* a gateway call or a sleep, which returns
Await == [op |-> "await", lock |-> "-", mode |-> "-"]
\* place_order(..).await and the logging of its answer, which may panic
OrderLogged == [op |-> "order", lock |-> "-", mode |-> "-"]

Guard(t, mode) == [task |-> t, mode |-> mode]

RwLock(holders, queue) == [holders |-> holders, queue |-> queue]

LockPc(at, todo) == [at |-> at, todo |-> todo]

\* the push made under a write guard on trading_mode as well
push_locked_under_mode ==
    <<Acquire("trade_history", "write"), Acquire("trading_mode", "write"),
      Release("trading_mode"), Release("trade_history")>>

\* state.trade_history.write().await.push(..)
push_locked == <<Acquire("trade_history", "write"), Release("trade_history")>>

\* one pass of a trading loop that found its flag set: the flag read, then
\* the read guard on trading_mode held over the whole body
cycle_locked(flag, body) ==
    <<Acquire(flag, "read"), Release(flag), Acquire("trading_mode", "read")>>
    \o body \o <<Release("trading_mode")>>

\* what a task does with the locks between two ticks, or while it handles
\* one request.  A loop finds its flag unset, or runs a cycle that submits
\* an order and records the trade; portfolio_tracking_loop pushes a
\* snapshot; the API task handles toggle_trading, toggle_crypto_trading,
\* set_trading_mode, get_trading_mode, status, get_trade_history,
\* get_portfolio_history or a manual close
Programs(t) ==
    CASE t = "trading_loop" ->
            { <<Acquire("trading_enabled", "read"), Release("trading_enabled")>>,
              cycle_locked("trading_enabled", <<OrderLogged>> \o push_locked) }
      [] t = "crypto_trading_loop" ->
            { <<Acquire("crypto_trading_enabled", "read"), Release("crypto_trading_enabled")>>,
              cycle_locked("crypto_trading_enabled", <<Await>> \o push_locked) }
      [] t = "portfolio_tracking_loop" ->
            { <<Await, Acquire("portfolio_history", "write"), Release("portfolio_history")>> }
      [] OTHER ->
            { <<Acquire("trading_enabled", "write"), Release("trading_enabled")>>,
              <<Acquire("crypto_trading_enabled", "write"), Release("crypto_trading_enabled")>>,
              <<Acquire("trading_mode", "write"), Release("trading_mode")>>,
              <<Acquire("trading_mode", "read"), Release("trading_mode")>>,
              <<Acquire("trading_enabled", "read"), Release("trading_enabled"),
                Acquire("crypto_trading_enabled", "read"), Release("crypto_trading_enabled")>>,
              <<Acquire("trade_history", "read"), Release("trade_history")>>,
              <<Acquire("portfolio_history", "read"), Release("portfolio_history")>>,
              <<Await>> \o push_locked }

\* the request at the head of the queue can be granted
grantable(lock, guard) ==
    /\ lock.queue # <<>>
    /\ Head(lock.queue) = guard
    /\ IF guard.mode = "read"
       THEN \A g \in lock.holders : g.mode = "read"
       ELSE lock.holders = {}

\* drop(guard): task t holds the lock no longer
release(lock, t) == RwLock({ g \in lock.holders : g.task # t }, lock.queue)

lock_unchanged ==
    /\ UNCHANGED <<trading_mode, mode_readers, mode_queue, trading_enabled,
                   crypto_trading_enabled, trade_history, logger, pc, symbols, idx,
                   counts, events, last, cycle_no, ops, api_pc, api_req, ny_time, now>>
    /\ UNCHANGED <<ledger_vars, venue, wire, reply, sentiment_cache, bars, manual,
                   close_vars>>

\* a tick fires, or a request arrives
TaskStarts(t) ==
    /\ lock_pc[t] = LockPc("run", <<>>)
    /\ \E todo \in Programs(t) : lock_pc' = [lock_pc EXCEPT ![t] = LockPc("run", todo)]
    /\ UNCHANGED locks
    /\ lock_unchanged

\* the task reaches a read().await or write().await
LockRequest(t) ==
    /\ lock_pc[t].at = "run"
    /\ lock_pc[t].todo # <<>>
    /\ LET o == Head(lock_pc[t].todo) IN
          /\ o.op = "acquire"
          /\ locks' = [locks EXCEPT
                ![o.lock] = RwLock(@.holders, Append(@.queue, Guard(t, o.mode)))]
          /\ lock_pc' = [lock_pc EXCEPT ![t].at = "wait"]
    /\ lock_unchanged

\* the lock hands the task its guard
LockGrant(t) ==
    /\ lock_pc[t].at = "wait"
    /\ LET o == Head(lock_pc[t].todo) IN
          /\ grantable(locks[o.lock], Guard(t, o.mode))
          /\ locks' = [locks EXCEPT
                ![o.lock] = RwLock(@.holders \cup {Guard(t, o.mode)}, Tail(@.queue))]
          /\ lock_pc' = [lock_pc EXCEPT ![t] = LockPc("run", Tail(lock_pc[t].todo))]
    /\ lock_unchanged

\* the guard goes out of scope
GuardDrop(t) ==
    /\ lock_pc[t].at = "run"
    /\ lock_pc[t].todo # <<>>
    /\ LET o == Head(lock_pc[t].todo) IN
          /\ o.op = "release"
          /\ locks' = [locks EXCEPT ![o.lock] = release(@, t)]
          /\ lock_pc' = [lock_pc EXCEPT ![t].todo = Tail(@)]
    /\ lock_unchanged

\* a gateway call or a sleep returns
AwaitReturns(t) ==
    /\ lock_pc[t].at = "run"
    /\ lock_pc[t].todo # <<>>
    /\ Head(lock_pc[t].todo).op \in {"await", "order"}
    /\ lock_pc' = [lock_pc EXCEPT ![t].todo = Tail(@)]
    /\ UNCHANGED locks
    /\ lock_unchanged

\* &order_response.id[..8] panics: the task ends, and unwinding drops the
\* guards it holds
TaskPanics(t) ==
    /\ lock_pc[t].at = "run"
    /\ lock_pc[t].todo # <<>>
    /\ Head(lock_pc[t].todo).op = "order"
    /\ locks' = [l \in Locks |-> release(locks[l], t)]
    /\ lock_pc' = [lock_pc EXCEPT ![t] = LockPc("dead", <<>>)]
    /\ lock_unchanged

\* what a task that is not waiting for a lock goes on to do, and the grant
LockProgress(t) ==
    \/ LockRequest(t)
    \/ LockGrant(t)
    \/ GuardDrop(t)
    \/ AwaitReturns(t)

----------------------------------------------------------------------------
(* ActivityLogger::log step by step (activity.rs).  log is a plain function  *)
(* on a DashMap, called from tasks that run on the threads of the runtime:   *)
(* its insert, its length check, its search for the oldest entry and its     *)
(* remove are separate operations on the shared map.  An entry is known by   *)
(* its id, the number of its insertion; timestamps[id] is its timestamp.       *)

\* the tasks that call the logger
LogTasks == {"trading_loop", "api"}

\* Utc::now(): the clock has not gone back, and may not have moved
Timestamps(stamps) ==
    LET latest == IF stamps = <<>> THEN 0 ELSE stamps[Len(stamps)]
    IN  {latest, latest + 1}

\* min_by_key with the largest timestamp looked for
max_by_key(stored, stamps) ==
    { k \in stored : \A i \in stored : stamps[k] >= stamps[i] }

\* self.logs.iter().min_by_key(|entry| entry.value().timestamp.clone()): an
\* entry with the smallest timestamp, the first one met in the map's order
min_by_key(stored, stamps) ==
    { k \in stored : \A i \in stored : stamps[k] <= stamps[i] }

\* let log = ActivityLog { id, timestamp: Utc::now(), .. }; self.logs.insert(id, log)
LogInsert(t) ==
    /\ log_pc[t] = "idle"
    /\ ledger_ops > 0
    /\ ledger_ops' = ledger_ops - 1
    /\ \E timestamp \in Timestamps(timestamps) : timestamps' = Append(timestamps, timestamp)
    /\ logs' = logs \cup {Len(timestamps) + 1}
    /\ log_pc' = [log_pc EXCEPT ![t] = "check"]
    /\ log_overlap' = (log_overlap \/ \E u \in LogTasks : log_pc[u] # "idle")
    /\ UNCHANGED <<log_oldest, portfolio_history, portfolio_task>>
    /\ UNCHANGED engine_vars

\* if self.logs.len() > self.max_logs
LogCheck(t) ==
    /\ log_pc[t] = "check"
    /\ log_pc' = [log_pc EXCEPT ![t] = IF Cardinality(logs) > max_logs THEN "find" ELSE "idle"]
    /\ UNCHANGED <<logs, timestamps, log_oldest, log_overlap, portfolio_history, portfolio_task, ledger_ops>>
    /\ UNCHANGED engine_vars

\* if let Some(oldest) = ...min_by_key(..) { let key = oldest.key().clone(); drop(oldest)
LogFind(t) ==
    /\ log_pc[t] = "find"
    /\ IF logs = {}
       THEN /\ log_pc' = [log_pc EXCEPT ![t] = "idle"]
            /\ UNCHANGED log_oldest
       ELSE /\ \E key \in min_by_key(logs, timestamps) :
                  log_oldest' = [log_oldest EXCEPT ![t] = key]
            /\ log_pc' = [log_pc EXCEPT ![t] = "remove"]
    /\ UNCHANGED <<logs, timestamps, log_overlap, portfolio_history, portfolio_task, ledger_ops>>
    /\ UNCHANGED engine_vars

\* self.logs.remove(&key), and the return of log
LogRemove(t) ==
    /\ log_pc[t] = "remove"
    /\ logs' = logs \ {log_oldest[t]}
    /\ log_pc' = [log_pc EXCEPT ![t] = "idle"]
    /\ UNCHANGED <<timestamps, log_oldest, log_overlap, portfolio_history, portfolio_task, ledger_ops>>
    /\ UNCHANGED engine_vars

\* ActivityLogger::get_logs: the stored entries sorted by
\* |a, b| b.timestamp.cmp(&a.timestamp); an entry's place is one more than the
\* number of entries the comparison puts before it (of two entries with one
\* timestamp the later insertion is put first here)
get_logs(stored, stamps) ==
    LET before(i, k) == stamps[i] > stamps[k] \/ (stamps[i] = stamps[k] /\ i > k)
        place == [k \in stored |-> 1 + Cardinality({i \in stored : before(i, k)})]
    IN  [p \in 1..Cardinality(stored) |-> CHOOSE k \in stored : place[k] = p]

----------------------------------------------------------------------------
(* portfolio_tracking_loop (main.rs): a snapshot carries the number of its   *)
(* insertion, the snapshot main starts the history with being number 1       *)

\* account.portfolio_value and account.cash as the venue sends them: an
\* amount in dollars, or a string that does not parse (written -1 here)
AccountValues == {-1, 99000}
AccountCash == {-1, 40000}

\* .parse().unwrap_or(100000.0)
parse_or_default(text) == IF text = -1 THEN 100000 ELSE text

\* PortfolioSnapshot { timestamp, total_value, cash, positions_value }
PortfolioSnapshot(no, total_value, cash) ==
    [no |-> no, total_value |-> total_value, cash |-> cash,
     positions_value |-> total_value - cash]

\* the snapshot main builds before the tasks start
initial_snapshot(no) == PortfolioSnapshot(no, 100000, 100000)

\* push_snapshot with the length compared by >=
push_snapshot_early(history, snapshot) ==
    LET pushed == Append(history, snapshot)
    IN  IF Len(pushed) >= PORTFOLIO_CAP THEN Tail(pushed) ELSE pushed

\* history.push(snapshot); if history.len() > 100 { history.remove(0); }
push_snapshot(history, snapshot) ==
    LET pushed == Append(history, snapshot)
    IN  IF Len(pushed) > PORTFOLIO_CAP THEN Tail(pushed) ELSE pushed

PortfolioTask(at, account) == [pc |-> at, account |-> account]

\* PortfolioTick with a snapshot of the default values pushed when the
\* account cannot be read
PortfolioTick_default_on_err ==
    /\ portfolio_task.pc = "tick"
    /\ ledger_ops > 0
    /\ ledger_ops' = ledger_ops - 1
    /\ \/ /\ portfolio_task' = PortfolioTask("backoff", "err")
          /\ portfolio_history' =
                push_snapshot(portfolio_history,
                    PortfolioSnapshot(portfolio_history[Len(portfolio_history)].no + 1,
                                      100000, 100000))
       \/ /\ portfolio_task' = PortfolioTask("tick", "ok")
          /\ \E portfolio_value \in AccountValues, cash \in AccountCash :
                portfolio_history' =
                   push_snapshot(portfolio_history,
                       PortfolioSnapshot(portfolio_history[Len(portfolio_history)].no + 1,
                                         parse_or_default(portfolio_value),
                                         parse_or_default(cash)))
    /\ UNCHANGED <<logs, timestamps, log_pc, log_oldest, log_overlap>>
    /\ UNCHANGED engine_vars

\* one iteration of portfolio_tracking_loop from its tick: without the
\* account the loop goes to its sleep of 10 seconds, with it the snapshot is
\* pushed under the write guard and the loop is back at its tick
PortfolioTick ==
    /\ portfolio_task.pc = "tick"
    /\ ledger_ops > 0
    /\ ledger_ops' = ledger_ops - 1
    /\ \/ /\ portfolio_task' = PortfolioTask("backoff", "err")
          /\ UNCHANGED portfolio_history
       \/ /\ portfolio_task' = PortfolioTask("tick", "ok")
          /\ \E portfolio_value \in AccountValues, cash \in AccountCash :
                portfolio_history' =
                   push_snapshot(portfolio_history,
                       PortfolioSnapshot(portfolio_history[Len(portfolio_history)].no + 1,
                                         parse_or_default(portfolio_value),
                                         parse_or_default(cash)))
    /\ UNCHANGED <<logs, timestamps, log_pc, log_oldest, log_overlap>>
    /\ UNCHANGED engine_vars

\* tokio::time::sleep(Duration::from_secs(10)).await; continue
PortfolioBackoff ==
    /\ portfolio_task.pc = "backoff"
    /\ portfolio_task' = PortfolioTask("tick", portfolio_task.account)
    /\ UNCHANGED <<logs, timestamps, log_pc, log_oldest, log_overlap, portfolio_history,
                   ledger_ops>>
    /\ UNCHANGED engine_vars

----------------------------------------------------------------------------
(* The wall clock *)

\* times of the New York clock on either side of the session's bounds, on a
\* Friday and on a Saturday
NYTimes ==
    { NYTime(weekday, minutes) :
        weekday \in {5, 6},
        minutes \in {9 * 60 + 29, 9 * 60 + 30, 15 * 60 + 59, 16 * 60} }

\* time passes
ClockAdvance ==
    /\ ny_time' \in NYTimes \ {ny_time}
    /\ UNCHANGED <<trading_mode, mode_readers, mode_queue, trading_enabled,
                   crypto_trading_enabled, trade_history, logger, pc, symbols, idx,
                   counts, events, last, cycle_no, ops, api_pc, api_req, now>>
    /\ UNCHANGED <<ledger_vars, venue, gateway_vars>>

----------------------------------------------------------------------------
(* Order sizing: the BUY branch of a step against one answer of the venue, *)
(* the account's buying power and the instrument's latest price            *)

Venue(buying_power, price) == [buying_power |-> buying_power, price |-> price]

NoVenue == Venue(0, 0)

\* Account.buying_power as parsed (0 also for a text that does not parse),
\* sampled round the sizes at which a share of 150 dollars is affordable and
\* at which the cap of 5000 dollars applies
VenuePowers == {0, 1, 100, 2999, 3000, 10000, 100000, 200000}

\* latest trade prices: equities, and a coin of 100000 dollars
VenuePrices == {115, 150, 5001, 100000}

\* a step that ends as r: what it pushes and logs
sized_step(r) ==
    /\ ops > 0
    /\ ops' = ops - 1
    /\ last' = r
    /\ trade_history' = trade_history \o r.trades
    /\ logger' = log_all(logger, r.logs)
    /\ UNCHANGED <<trading_mode, mode_readers, mode_queue, trading_enabled,
                   crypto_trading_enabled, pc, symbols, idx, counts, events,
                   cycle_no, api_pc, api_req, ny_time, now>>
    /\ UNCHANGED <<ledger_vars, venue, gateway_vars>>

\* process_stock for an instrument not held whose signal is above the
\* threshold, the account read: the BUY branch sized from the venue's answer
SizeStockBuy ==
    \E e \in stock_buy_sized("AAPL", venue.price, venue.buying_power) :
        sized_step(StepRec("stocks", "AAPL", venue.price, MIN_BARS,
                           STOCK_SIGNAL_THRESHOLD + 1, <<>>,
                           <<Call("get_latest_quote", "", "ok"), Call("get_bars", "", "ok"),
                             Call("get_positions", "", "ok")>> \o e.calls,
                           e.ret,
                           <<ActivityLog("info", "Price", "price", NoSymbol),
                             ActivityLog("info", "Analysis", "analysis", "AAPL")>> \o e.logs,
                           e.trades))

\* process_crypto for a pair not held whose signal is above the threshold
SizeCryptoBuy ==
    \E e \in crypto_buy_sized("BTC/USD", venue.price, venue.buying_power) :
        sized_step(StepRec("crypto", "BTC/USD", venue.price, MIN_BARS,
                           CRYPTO_SIGNAL_THRESHOLD + 1, <<>>,
                           <<Call("get_latest_crypto_price", "", "ok"),
                             Call("get_crypto_bars", "", "ok"),
                             Call("get_positions", "", "ok")>> \o e.calls,
                           e.ret,
                           <<ActivityLog("info", "Crypto Price", "price", NoSymbol),
                             ActivityLog("info", "Analysis", "analysis", "BTC/USD")>> \o e.logs,
                           e.trades))

----------------------------------------------------------------------------
(* The gateways (alpaca.rs, crypto.rs): one call against what the venue     *)
(* answers its HTTP requests                                                *)

NoWire == [op |-> "-"]

NoReply == [op |-> "-"]

\* an HTTP exchange as the client sees it: the request was not answered
\* ("neterr"), answered with a non-success status ("status"), answered with a
\* body that cannot be read ("unreadable") or that is not the JSON expected
\* ("badjson"), or answered with the content body ("ok")
Response(kind, body) == [kind |-> kind, body |-> body]

Failures == { Response(k, <<>>) : k \in {"neterr", "status", "unreadable", "badjson"} }

\* GET /positions: no position, or one
PositionResponses ==
    Failures \cup { Response("ok", <<>>), Response("ok", <<Position("AAPL", 100)>>) }

\* GET /stocks/{symbol}/trades/latest: value["trade"]["p"] absent, 0, or a price
TradeResponses ==
    Failures \cup { Response("ok", <<>>), Response("ok", <<0>>), Response("ok", <<115>>) }

\* GET .../bars with limit 1: the closes of the bars returned
BarsResponses == Failures \cup { Response("ok", <<>>), Response("ok", <<114>>) }

Quote(ap, bp) == [ap |-> ap, bp |-> bp]

\* GET /crypto/us/latest/quotes: no quote for the symbol, or its ask and bid
QuoteResponses ==
    Failures \cup { Response("ok", <<>>), Response("ok", <<Quote(120, 119)>>),
                    Response("ok", <<Quote(0, 119)>>), Response("ok", <<Quote(0, 0)>>) }

Wire(positions, trade, stock_bars, quote, crypto_bars) ==
    [op |-> "http", positions |-> positions, trade |-> trade, stock_bars |-> stock_bars,
     quote |-> quote, crypto_bars |-> crypto_bars]

\* Result<T>: Ok(value), the value read from source, or Err
Ok(value, source) == [result |-> "Ok", value |-> value, source |-> source]

Err == [result |-> "Err", value |-> <<>>, source |-> "-"]

\* AlpacaClient::get_positions: send().await?, Ok(vec![]) on a non-success
\* status, Ok(response.json().await?)
get_positions(response) ==
    IF response.kind = "neterr" THEN Err
    ELSE IF response.kind = "status" THEN Ok(<<>>, "-")
    ELSE IF response.kind = "ok" THEN Ok(response.body, "positions")
    ELSE Err

\* AlpacaClient::get_bars and CryptoClient::get_crypto_bars:
\* send().await.context(..)?, Ok(vec![]) on a non-success status,
\* response.text().await?, Ok(vec![]) on a body that does not parse
get_bars(response) ==
    IF response.kind \in {"neterr", "unreadable"} THEN Err
    ELSE IF response.kind \in {"status", "badjson"} THEN Ok(<<>>, "-")
    ELSE Ok(response.body, "bars")

\* let bars = self.get_bars(symbol, "1Min", 1).await?;
\* if let Some(bar) = bars.first() { return Ok(bar.c); } bail!(..)
latest_bar_close(bars_result) ==
    IF bars_result.result = "Err" THEN Err
    ELSE IF bars_result.value # <<>> THEN Ok(<<Head(bars_result.value)>>, "bar")
    ELSE Err

\* AlpacaClient::get_latest_quote
get_latest_quote(trade, stock_bars) ==
    IF trade.kind = "neterr" THEN Err
    ELSE IF trade.kind = "status" THEN latest_bar_close(get_bars(stock_bars))
    ELSE IF trade.kind \in {"unreadable", "badjson"} THEN Err
    ELSE IF trade.body # <<>> /\ Head(trade.body) > 0 THEN Ok(<<Head(trade.body)>>, "trade")
    ELSE latest_bar_close(get_bars(stock_bars))

\* CryptoClient::get_latest_crypto_price
get_latest_crypto_price(quote, crypto_bars) ==
    IF quote.kind = "neterr" THEN Err
    ELSE IF quote.kind = "status" THEN Err
    ELSE IF quote.kind \in {"unreadable", "badjson"} THEN Err
    ELSE IF quote.body # <<>> /\ Head(quote.body).ap > 0
         THEN Ok(<<Head(quote.body).ap>>, "ask")
    ELSE IF quote.body # <<>> /\ Head(quote.body).bp > 0
         THEN Ok(<<Head(quote.body).bp>>, "bid")
    ELSE latest_bar_close(get_bars(crypto_bars))

\* the call op returned r
Reply(op, r) == [op |-> op, result |-> r.result, value |-> r.value, source |-> r.source]

\* a gateway call returns
gateway_call(op, r) ==
    /\ reply' = Reply(op, r)
    /\ UNCHANGED <<wire, sentiment_cache, bars, venue, manual, close_vars, lock_vars>>
    /\ UNCHANGED <<trading_mode, mode_readers, mode_queue, trading_enabled,
                   crypto_trading_enabled, trade_history, logger, pc, symbols, idx,
                   counts, events, last, cycle_no, ops, api_pc, api_req, ny_time, now>>
    /\ UNCHANGED ledger_vars

GetPositions == gateway_call("get_positions", get_positions(wire.positions))

GetLatestQuote ==
    gateway_call("get_latest_quote", get_latest_quote(wire.trade, wire.stock_bars))

GetLatestCryptoPrice ==
    gateway_call("get_latest_crypto_price",
                 get_latest_crypto_price(wire.quote, wire.crypto_bars))

----------------------------------------------------------------------------
(* The sentiment cache (news.rs): scores in thousandths, written by the     *)
(* REST polling task and by the WebSocket news messages, read by the steps  *)

\* f64::clamp
clamp(x, lo, hi) == IF x < lo THEN lo ELSE IF x > hi THEN hi ELSE x

RECURSIVE sum(_)
sum(values) == IF values = <<>> THEN 0 ELSE Head(values) + sum(Tail(values))

\* the symbols rest_polling_task asks for (of its eight)
RestSymbols == {"AAPL"}

\* the symbols a news message may name: subscribed ones, and any other
NewsSymbols == {"AAPL", "GME"}

\* the symbols the steps ask the sentiment of
ReadSymbols == {"AAPL", "GME", "BTC/USD"}

\* GET /v1beta1/news: the sentiment scores of the articles returned
NewsResponses ==
    Failures \cup { Response("ok", <<>>), Response("ok", <<100>>),
                    Response("ok", <<2500, 1500>>), Response("ok", <<-3000>>) }

\* AlpacaClient::get_news_sentiment: Ok(0.0) on a non-success status, on a
\* body that does not parse and on no article, else the average, clamped
get_news_sentiment(response) ==
    IF response.kind = "neterr" THEN Err
    ELSE IF response.kind # "ok" THEN Ok(<<0>>, "-")
    ELSE IF response.body = <<>> THEN Ok(<<0>>, "-")
    ELSE Ok(<<clamp(sum(response.body) \div Len(response.body), -1000, 1000)>>, "news")

\* a text message of the news stream: not JSON ("badjson"), of a type other
\* than "n", or a news article with its symbols and its sentiment_score (absent: <<>>)
NewsMessage(type, syms, score) == [T |-> type, symbols |-> syms, sentiment_score |-> score]

NewsMessages ==
    { NewsMessage("badjson", <<>>, <<>>), NewsMessage("subscription", <<>>, <<>>) }
    \cup { NewsMessage("n", syms, score) :
             syms \in {<<"AAPL">>, <<"GME">>, <<"AAPL", "GME">>},
             score \in {<<>>, <<700>>, <<2500>>, <<-2500>>} }

\* sentiment_cache.insert(symbol, score)
insert(cache, symbol, score) == (symbol :> score) @@ cache

RECURSIVE insert_all(_, _, _)
insert_all(cache, syms, score) ==
    IF syms = <<>> THEN cache
    ELSE insert_all(insert(cache, Head(syms), score), Tail(syms), score)

\* NewsAggregator::process_news_message: the cache after the message
process_news_message(cache, message) ==
    IF message.T = "n"
    THEN insert_all(cache, message.symbols,
                    IF message.sentiment_score = <<>> THEN 0
                    ELSE Head(message.sentiment_score))
    ELSE cache

\* get_sentiment with a bullish score for a symbol not cached
get_sentiment_default_one(cache, symbol) ==
    IF symbol \in DOMAIN cache THEN cache[symbol] ELSE 1000

\* NewsAggregator::get_sentiment: .get(symbol).map(|v| *v).unwrap_or(0.0)
get_sentiment(cache, symbol) ==
    IF symbol \in DOMAIN cache THEN cache[symbol] ELSE 0

news_unchanged ==
    /\ UNCHANGED <<wire, bars, venue, manual, close_vars, lock_vars>>
    /\ UNCHANGED <<trading_mode, mode_readers, mode_queue, trading_enabled,
                   crypto_trading_enabled, trade_history, logger, pc, symbols, idx,
                   counts, events, last, cycle_no, ops, api_pc, api_req, ny_time, now>>
    /\ UNCHANGED ledger_vars

\* one symbol of rest_polling_task's loop: the cache is written on Ok
RestPoll ==
    \E symbol \in RestSymbols, response \in NewsResponses :
        LET r == get_news_sentiment(response) IN
        /\ reply' = [op |-> "get_news_sentiment", result |-> r.result, value |-> r.value,
                      source |-> <<symbol>>]
        /\ sentiment_cache' = IF r.result = "Ok"
                               THEN insert(sentiment_cache, symbol, Head(r.value))
                               ELSE sentiment_cache
        /\ news_unchanged

\* a text message arrives on the news stream
NewsArrives ==
    \E message \in NewsMessages :
        /\ reply' = [op |-> "process_news_message",
                      result |-> IF message.T = "badjson" THEN "Err" ELSE "Ok",
                      value |-> IF message.T = "n" /\ message.sentiment_score = <<>>
                                THEN <<0>> ELSE message.sentiment_score,
                      source |-> message.symbols]
        /\ sentiment_cache' = process_news_message(sentiment_cache, message)
        /\ news_unchanged

\* let sentiment = state.news.get_sentiment(symbol), in a step
GetSentiment ==
    \E symbol \in ReadSymbols :
        /\ reply' = Reply("get_sentiment", Ok(<<get_sentiment(sentiment_cache, symbol)>>, symbol))
        /\ UNCHANGED sentiment_cache
        /\ news_unchanged

----------------------------------------------------------------------------
(* The indicators (technical.rs) over a series of closes.  Closes are whole *)
(* dollars; RSI, averages, scores and sentiment are in thousandths.  An     *)
(* Option is a sequence of at most one value.  An f64 result is Float(v),   *)
(* or NaN.                                                                  *)

Float(v) == [nan |-> FALSE, v |-> v]

NaN == [nan |-> TRUE, v |-> 0]

\* n closes of c
Run(n, c) == [i \in 1..n |-> c]

\* n closes from first on, each step more than the one before
Ramp(n, first, step) == [i \in 1..n |-> first + (i - 1) * step]

\* the last n closes of a series of at least n
Last(closes, n) == SubSeq(closes, Len(closes) - n + 1, Len(closes))

\* gains (up = TRUE) or losses of the changes of a series, as calculate_rsi
\* pushes them: change > 0.0 is a gain, anything else a loss of -change
RECURSIVE changes(_, _)
changes(closes, up) ==
    IF Len(closes) < 2 THEN <<>>
    ELSE LET change == closes[2] - closes[1] IN
         <<IF up THEN (IF change > 0 THEN change ELSE 0)
                 ELSE (IF change > 0 THEN 0 ELSE -change)>>
         \o changes(Tail(closes), up)

\* calculate_rsi with too short a series let through
calculate_rsi_unguarded(closes, period) ==
    LET gain == sum(Last(changes(closes, TRUE), Min(period, Len(closes) - 1)))
        loss == sum(Last(changes(closes, FALSE), Min(period, Len(closes) - 1)))
    IN  IF Len(closes) = 0 THEN <<>>
        ELSE IF loss = 0 THEN <<100000>>
        ELSE <<100000 - (100000 * loss) \div (gain + loss)>>

\* TechnicalAnalysis::calculate_rsi: None under period + 1 bars; 100 when the
\* average loss of the last period changes is 0; else 100 - 100 / (1 + rs)
calculate_rsi(closes, period) ==
    IF Len(closes) < period + 1 THEN <<>>
    ELSE LET gain == sum(Last(changes(closes, TRUE), period))
             loss == sum(Last(changes(closes, FALSE), period))
         IN  IF loss = 0 THEN <<100000>>
             ELSE <<100000 - (100000 * loss) \div (gain + loss)>>

\* calculate_sma over the oldest closes of the series
calculate_sma_oldest(closes, period) ==
    IF Len(closes) < period THEN <<>>
    ELSE <<(sum(SubSeq(closes, 1, period)) * 1000) \div period>>

\* TechnicalAnalysis::calculate_sma: None under period bars
calculate_sma(closes, period) ==
    IF Len(closes) < period THEN <<>>
    ELSE <<(sum(Last(closes, period)) * 1000) \div period>>

\* if rsi < 30.0 { score += 0.3 } else if rsi > 70.0 { score -= 0.3 }
rsi_term(closes) ==
    LET rsi == calculate_rsi(closes, 14) IN
    IF rsi = <<>> THEN 0
    ELSE IF Head(rsi) < 30000 THEN 300
    ELSE IF Head(rsi) > 70000 THEN -300
    ELSE 0

\* if sma_20 > sma_50 { score += 0.2 } else { score -= 0.2 }, both being Some
crossover_term(closes) ==
    LET sma_20 == calculate_sma(closes, 20)
        sma_50 == calculate_sma(closes, 50)
    IN  IF sma_20 = <<>> \/ sma_50 = <<>> THEN 0
        ELSE IF Head(sma_20) > Head(sma_50) THEN 200
        ELSE -200

\* recent_change.clamp(-0.3, 0.3) for recent_change = (last - base) / base:
\* with base 0.0 the quotient is an infinity, or NaN when last is 0.0 too,
\* and NaN.clamp is NaN
momentum_term(closes) ==
    LET last_c == closes[Len(closes)]
        base == closes[Len(closes) - 9]
    IN  IF base = 0
        THEN IF last_c = 0 THEN NaN
             ELSE IF last_c > 0 THEN Float(300) ELSE Float(-300)
        ELSE Float(clamp(((last_c - base) * 1000) \div base, -300, 300))

\* generate_signal with its terms applied from 10 bars on
generate_signal_min_ten(closes, sentiment, momentum_boost) ==
    IF Len(closes) < 10 THEN Float(0)
    ELSE LET momentum == momentum_term(closes) IN
         IF momentum.nan THEN NaN
         ELSE Float(clamp(rsi_term(closes) + crossover_term(closes) + momentum.v
                              + sentiment \div 5 + momentum_boost,
                          -1000, 1000))

\* TechnicalAnalysis::generate_signal, momentum_boost being what
\* (rand::random::<f64>() - 0.5) * 0.25 came to: 0.0 under 20 bars, else the
\* sum of the terms clamped to [-1, 1] (NaN stays NaN)
generate_signal(closes, sentiment, momentum_boost) ==
    IF Len(closes) < MIN_BARS THEN Float(0)
    ELSE LET momentum == momentum_term(closes) IN
         IF momentum.nan THEN NaN
         ELSE Float(clamp(rsi_term(closes) + crossover_term(closes) + momentum.v
                              + sentiment \div 5 + momentum_boost,
                          -1000, 1000))

\* (rand::random::<f64>() - 0.5) * 0.25: any value of [-0.125, 0.125)
Boosts == {-125, 0, 124}

\* the periods calculate_rsi is called with
Periods == {14, 19}

\* the periods calculate_sma is called with
SmaPeriods == {20, 50}

\* series of closes: none; 14, 15, 19 and 20 rising; 20 falling; 20 flat;
\* 20 of which the last ten are 0; 20 that rise from 0; 25 flat but for the
\* first five; 50 that are oversold
\* above their long average after a rise of 36%; 50 that are overbought
\* below it after a fall of 36%
BarSeries ==
    { <<>>, Ramp(14, 100, 1), Ramp(15, 100, 1), Ramp(19, 100, 1), Ramp(20, 100, 1),
      Ramp(20, 200, -1), Run(20, 100), Run(10, 100) \o Run(10, 0),
      Run(10, 0) \o Ramp(10, 0, 5), Run(5, 7) \o Run(20, 100),
      Run(35, 10) \o <<1000>> \o Ramp(5, 820, -180) \o Ramp(9, 104, 4),
      Run(35, 2000) \o <<100>> \o Ramp(5, 280, 180) \o Ramp(9, 960, -40) }

\* what the cache holds for the instrument analysed: nothing, or a score
SentimentCaches ==
    { <<>> } \cup { insert(<<>>, "AAPL", score) : score \in {-1000, 500, 1000, 2500} }

indicators_unchanged ==
    /\ UNCHANGED <<wire, sentiment_cache, bars, venue, manual, close_vars, lock_vars>>
    /\ UNCHANGED <<trading_mode, mode_readers, mode_queue, trading_enabled,
                   crypto_trading_enabled, trade_history, logger, pc, symbols, idx,
                   counts, events, last, cycle_no, ops, api_pc, api_req, ny_time, now>>
    /\ UNCHANGED ledger_vars

\* let sentiment = state.news.get_sentiment(symbol);
\* let signal = TechnicalAnalysis::generate_signal(&bars, sentiment);
GenerateSignal ==
    \E momentum_boost \in Boosts :
        LET sentiment == get_sentiment(sentiment_cache, "AAPL") IN
        /\ reply' = [op |-> "generate_signal", sentiment |-> sentiment,
                      boost |-> momentum_boost,
                      value |-> generate_signal(bars, sentiment, momentum_boost)]
        /\ indicators_unchanged

\* TechnicalAnalysis::calculate_rsi(bars, period)
CalculateRsi ==
    \E period \in Periods :
        /\ reply' = [op |-> "calculate_rsi", period |-> period,
                      value |-> calculate_rsi(bars, period)]
        /\ indicators_unchanged

\* TechnicalAnalysis::calculate_sma(bars, period)
CalculateSma ==
    \E period \in SmaPeriods :
        /\ reply' = [op |-> "calculate_sma", period |-> period,
                      value |-> calculate_sma(bars, period)]
        /\ indicators_unchanged

----------------------------------------------------------------------------
(* The engine *)

\* no manual close handled yet, no closing task and no lock taken step by step
ClosersAtRest ==
    /\ manual = NoManual
    /\ holdings = {}
    /\ closers = <<>>
    /\ locks = <<>>
    /\ lock_pc = <<>>

\* a run in which the gateways, the sentiment cache and the indicators are
\* not taken on their own
GatewaysAtRest ==
    /\ wire = NoWire
    /\ reply = NoReply
    /\ sentiment_cache = <<>>
    /\ bars = <<>>
    /\ ClosersAtRest

\* main: the state the tasks are spawned with
EngineStarted ==
    /\ trading_mode = "Hybrid"
    /\ mode_readers = {}
    /\ mode_queue = <<>>
    /\ trading_enabled = TRUE
    /\ crypto_trading_enabled = TRUE
    /\ trade_history = <<>>
    /\ logger = <<ActivityLog("success", "System", "LadyBug Trading Engine started", NoSymbol),
                  ActivityLog("success", "System", "Stock Trading AUTO-ENABLED", NoSymbol),
                  ActivityLog("success", "System", "Crypto Trading AUTO-ENABLED", NoSymbol)>>
    /\ pc = [t \in Classes |-> "tick"]
    /\ symbols = [t \in Classes |-> <<>>]
    /\ idx = [t \in Classes |-> 1]
    /\ counts = [t \in Classes |-> ZeroCounts]
    /\ events = [t \in Classes |-> <<>>]
    /\ last = NoStep
    /\ cycle_no = [t \in Classes |-> 0]
    /\ api_pc = "idle"
    /\ api_req = [mode |-> "Hybrid", during |-> {}]
    /\ now = NYTime(0, 0)

\* the engine started, in a run whose orders are sized from BuyingPowers
Started == EngineStarted /\ venue = NoVenue /\ GatewaysAtRest

\* a Friday at the opening of the session, in a run in which time stands still
SessionOpen == ny_time = NYTime(5, 9 * 60 + 30)

\* the ledgers of a run in which log and the portfolio loop are not taken
\* step by step
LedgersAtRest ==
    /\ logs = {}
    /\ timestamps = <<>>
    /\ log_pc = [t \in LogTasks |-> "idle"]
    /\ log_oldest = [t \in LogTasks |-> 0]
    /\ log_overlap = FALSE
    /\ portfolio_history = <<initial_snapshot(1)>>
    /\ portfolio_task = PortfolioTask("tick", "none")
    /\ ledger_ops = 0

Init == Started /\ ops = MaxOps /\ LedgersAtRest /\ SessionOpen

InitCycle == Started /\ ops = MaxCycleOps /\ LedgersAtRest /\ SessionOpen

\* the engine started against any answer of the venue
InitSizing ==
    /\ EngineStarted
    /\ ops = MaxSizingOps
    /\ LedgersAtRest
    /\ SessionOpen
    /\ venue \in { Venue(bp, p) : bp \in VenuePowers, p \in VenuePrices }
    /\ GatewaysAtRest

\* the engine started, the venue answering the gateways' requests in any way
InitGateway ==
    /\ EngineStarted
    /\ ops = 0
    /\ LedgersAtRest
    /\ SessionOpen
    /\ venue = NoVenue
    /\ wire \in { Wire(p, t, sb, q, cb) :
                     p \in PositionResponses, t \in TradeResponses, sb \in BarsResponses,
                     q \in QuoteResponses, cb \in BarsResponses }
    /\ reply = NoReply
    /\ sentiment_cache = <<>>
    /\ bars = <<>>
    /\ ClosersAtRest

\* the engine started, nothing cached yet
InitNews == Started /\ ops = 0 /\ LedgersAtRest /\ SessionOpen

\* the engine started, any of the series at hand and any of the caches
InitIndicators ==
    /\ EngineStarted
    /\ ops = 0
    /\ LedgersAtRest
    /\ SessionOpen
    /\ venue = NoVenue
    /\ wire = NoWire
    /\ reply = NoReply
    /\ sentiment_cache \in SentimentCaches
    /\ bars \in BarSeries
    /\ ClosersAtRest

InitManual == Started /\ ops = MaxManualOps /\ LedgersAtRest /\ SessionOpen

\* the engine started at any of the times
InitGate == Started /\ ops = MaxGateOps /\ LedgersAtRest /\ ny_time \in NYTimes

\* the Activity Ledger empty or just full, every entry in the order of its
\* insertion
InitLogger ==
    /\ Started
    /\ SessionOpen
    /\ ops = 0
    /\ \E n \in {0, max_logs} :
          /\ logs = 1..n
          /\ timestamps = [i \in 1..n |-> i]
    /\ log_pc = [t \in LogTasks |-> "idle"]
    /\ log_oldest = [t \in LogTasks |-> 0]
    /\ log_overlap = FALSE
    /\ portfolio_history = <<initial_snapshot(1)>>
    /\ portfolio_task = PortfolioTask("tick", "none")
    /\ ledger_ops = MaxLogCalls

\* the portfolio history as main leaves it, or after the ticks that fill it
\* while the account stays as it was
InitPortfolio ==
    /\ Started
    /\ SessionOpen
    /\ ops = 0
    /\ logs = {}
    /\ timestamps = <<>>
    /\ log_pc = [t \in LogTasks |-> "idle"]
    /\ log_oldest = [t \in LogTasks |-> 0]
    /\ log_overlap = FALSE
    /\ \E n \in {1, PORTFOLIO_CAP - 1, PORTFOLIO_CAP} :
          portfolio_history = [i \in 1..n |-> initial_snapshot(i)]
    /\ portfolio_task = PortfolioTask("tick", "none")
    /\ ledger_ops = MaxSnapshots

SetTradingMode ==
    \/ SetTradingModeCall
    \/ SetTradingModeWrite

Toggles ==
    \/ ToggleTrading
    \/ ToggleCryptoTrading

Next ==
    \/ StockTick
    \/ StockCycleStart
    \/ StockStep
    \/ StockSleep
    \/ CryptoTick
    \/ CryptoCycleStart
    \/ CryptoStep
    \/ CryptoSleep
    \/ SetTradingMode
    \/ Toggles

NextCycle ==
    \/ StockTick
    \/ StockCycleStart
    \/ StockStepOnce
    \/ StockSleep
    \/ CryptoTick
    \/ CryptoCycleStart
    \/ CryptoStepOnce
    \/ CryptoSleep
    \/ SetTradingMode

NextPortfolio ==
    \/ PortfolioTick
    \/ PortfolioBackoff

NextGateway ==
    \/ GetPositions
    \/ GetLatestQuote
    \/ GetLatestCryptoPrice

NextNews ==
    \/ RestPoll
    \/ NewsArrives
    \/ GetSentiment

NextIndicators ==
    \/ GenerateSignal
    \/ CalculateRsi
    \/ CalculateSma

NextSizing ==
    \/ SizeStockBuy
    \/ SizeCryptoBuy

\* the calls of ActivityLogger::log by the tasks, one operation at a time
Log ==
    \E t \in LogTasks :
        \/ LogInsert(t)
        \/ LogCheck(t)
        \/ LogFind(t)
        \/ LogRemove(t)

ManualClose ==
    \/ BookProfitSingle
    \/ BookAllProfits

NextManual ==
    \/ StockTick
    \/ StockCycleStart
    \/ StockStepOnce
    \/ StockSleep
    \/ CryptoTick
    \/ CryptoCycleStart
    \/ CryptoStepOnce
    \/ CryptoSleep
    \/ ManualClose

NextGate ==
    \/ StockTick
    \/ StockCycleStart
    \/ StockStepOnce
    \/ StockSleep
    \/ CryptoTick
    \/ CryptoCycleStart
    \/ CryptoStepOnce
    \/ CryptoSleep
    \/ ClockAdvance

\* the engine, every gateway answer explored
Spec == Init /\ [][Next]_vars

\* the engine over longer runs, one gateway answer per step result
SpecCycle == InitCycle /\ [][NextCycle]_vars

\* the cycles, one gateway answer per step result, and the manual closes
SpecManual == InitManual /\ [][NextManual]_vars

\* the manual close handlers on their own, every gateway answer explored
SpecHandlers == InitManual /\ [][ManualClose]_vars

\* the engine started, every instrument of CloseSymbols held once at the
\* venue, and the three closing tasks about to read the position list
InitClose ==
    /\ EngineStarted
    /\ ops = 0
    /\ LedgersAtRest
    /\ SessionOpen
    /\ venue = NoVenue
    /\ wire = NoWire
    /\ reply = NoReply
    /\ sentiment_cache = <<>>
    /\ bars = <<>>
    /\ manual = NoManual
    /\ holdings = {"AAPL", "TSLA"}
    /\ closers = [t \in Closers |-> Closer("idle", <<>>, MaxCloseRuns)]
    /\ locks = <<>>
    /\ lock_pc = <<>>

NextClose ==
    \E t \in Closers :
        \/ CloserRead(t)
        \/ CloserClose(t)
        \/ CloserAppend(t)

\* the closing tasks in every interleaving of their steps
SpecClose == InitClose /\ [][NextClose]_vars

\* the engine started, every lock free and every task before its first tick
\* or request
InitLocks ==
    /\ EngineStarted
    /\ ops = 0
    /\ LedgersAtRest
    /\ SessionOpen
    /\ venue = NoVenue
    /\ wire = NoWire
    /\ reply = NoReply
    /\ sentiment_cache = <<>>
    /\ bars = <<>>
    /\ manual = NoManual
    /\ holdings = {}
    /\ closers = <<>>
    /\ locks = [l \in Locks |-> RwLock({}, <<>>)]
    /\ lock_pc = [t \in LockTasks |-> LockPc("run", <<>>)]

NextLocks ==
    \E t \in LockTasks :
        \/ TaskStarts(t)
        \/ LockProgress(t)
        \/ TaskPanics(t)

\* the tasks in every interleaving of their lock operations
SpecLocks == InitLocks /\ [][NextLocks]_vars

\* the same, every task scheduled again and again and every gateway call
\* returning
SpecLocksFair == SpecLocks /\ \A t \in LockTasks : WF_vars(LockProgress(t))

\* the cycles, one gateway answer per step result, while time passes
SpecGate == InitGate /\ [][NextGate]_vars

\* the Activity Ledger under the log calls of concurrent tasks
SpecLogger == InitLogger /\ [][Log]_vars

\* the portfolio history under the portfolio loop
SpecPortfolio == InitPortfolio /\ [][NextPortfolio]_vars

\* the portfolio loop, its sleep of 10 seconds coming to an end
SpecPortfolioFair == SpecPortfolio /\ WF_vars(PortfolioBackoff)

\* the gateway calls against every answer of the venue
SpecGateway == InitGateway /\ [][NextGateway]_vars

\* the sentiment cache under its two writers and the reads of the steps
SpecNews == InitNews /\ [][NextNews]_vars

\* the indicator functions over every series and cache
SpecIndicators == InitIndicators /\ [][NextIndicators]_vars

\* the BUY branch of a step against every answer of the venue
SpecSizing == InitSizing /\ [][NextSizing]_vars


----------------------------------------------------------------------------
(* Vocabulary of the properties, stated on the record of the latest step *)

Stepped == last.task # "-"

IsOrder(c) == c.op \in {"place_order", "place_crypto_order",
                        "close_position", "close_crypto_position"}

IsClose(c) == c.op \in {"close_position", "close_crypto_position"}

\* the order-submission and position-close requests of step r, in order
Orders(r) == SelectSeq(r.calls, IsOrder)

\* step r read the position list (the third gateway call of a step)
ReadPositions(r) ==
    /\ Len(r.calls) >= 3
    /\ r.calls[3].op = "get_positions"
    /\ r.task = "stocks" => r.calls[3].resp = "ok"

ProfitThreshold(task) == IF task = "stocks" THEN 15 ELSE 20

SignalThreshold(task) == IF task = "stocks" THEN 150 ELSE 200

\* the list step r read contains the instrument
Held(r) == \E i \in 1..Len(r.positions) : r.positions[i].symbol = r.sym

\* the list step r read contains the instrument with a gain of at least pct percent
HeldWithGain(r, pct) ==
    \E i \in 1..Len(r.positions) :
        /\ r.positions[i].symbol = r.sym
        /\ r.positions[i].avg_entry_price > 0
        /\ (r.price - r.positions[i].avg_entry_price) * 100
              >= pct * r.positions[i].avg_entry_price

ProfitDue(r) == ReadPositions(r) /\ HeldWithGain(r, ProfitThreshold(r.task))

\* the symbols of the steps task t took in its current cycle, in order
RECURSIVE StepSymbols(_)
StepSymbols(ev) ==
    IF ev = <<>> THEN <<>>
    ELSE IF Head(ev)[1] = "step" THEN <<Head(ev)[2]>> \o StepSymbols(Tail(ev))
    ELSE StepSymbols(Tail(ev))

\* step, sleep, step, sleep, ... over the list syms
RECURSIVE Alternation(_)
Alternation(syms) ==
    IF syms = <<>> THEN <<>>
    ELSE << <<"step", Head(syms)>>, <<"sleep", Head(syms)>> >> \o Alternation(Tail(syms))

----------------------------------------------------------------------------
(* Properties *)

\* C1: when the position list read in a step holds the instrument with a gain
\* of at least the threshold (15% equities, 20% crypto), the action emitted is
\* the profit-take CLOSE, decided before the signal is compared: the first
\* order or close request of the step is the profit-take close, and when the
\* signal is below the negative sell threshold as well the step's outcome is
\* not a signal-driven sell.
C1_ProfitTakeFirst ==
    (Stepped /\ ProfitDue(last)) =>
        /\ Orders(last) # <<>>
        /\ IsClose(Orders(last)[1])
        /\ Orders(last)[1].why = "profit_take"
        /\ last.signal < -SignalThreshold(last.task) =>
              /\ last.ret # "sell"
              /\ \A i \in 1..Len(Orders(last)) : Orders(last)[i].why # "signal_sell"

\* C2: profit-take is terminal: a step that found the instrument held with a
\* gain of at least the threshold sends no signal-driven buy or sell, whether
\* the profit-take close succeeded or failed.
C2_ProfitTakeTerminal ==
    (Stepped /\ ProfitDue(last)) =>
        \A i \in 1..Len(last.calls) : last.calls[i].why \notin {"buy", "signal_sell"}

\* C3: no retry within a cycle: an instrument step sends at most one order or
\* close request to the gateway.
C3_AtMostOneRequest == Stepped => Len(Orders(last)) <= 1

\* C4: a BUY order is submitted only if the list read in the step does not
\* hold the instrument and signal > threshold (strict); a signal-driven CLOSE
\* only if the list holds it and signal < -threshold (strict).
C4_BuySellGuards ==
    Stepped =>
        \A i \in 1..Len(last.calls) :
            LET c == last.calls[i] IN
            /\ (IsOrder(c) /\ c.why = "buy") =>
                  /\ ReadPositions(last)
                  /\ ~Held(last)
                  /\ last.signal > SignalThreshold(last.task)
            /\ (IsOrder(c) /\ c.why = "signal_sell") =>
                  /\ ReadPositions(last)
                  /\ Held(last)
                  /\ last.signal < -SignalThreshold(last.task)

C4_Witness ==
    /\ Stepped
    /\ last.ret = "buy"
    /\ last.signal = SignalThreshold(last.task) + 1
    /\ Len(Orders(last)) = 1
    /\ Orders(last)[1].why = "buy"

\* C5: every action of the cycle that succeeds (BUY, SELL, profit-take CLOSE)
\* appends exactly one TradeRecord and one Trade entry of the Activity Ledger
\* before the step returns.
C5_SuccessRecorded ==
    (Stepped /\ last.ret \in {"buy", "sell", "profit_taking"}) =>
        /\ Len(last.trades) = 1
        /\ Cardinality({i \in 1..Len(last.logs) : last.logs[i].category = "Trade"}) = 1

\* C6: when the venue answers an order or close request with a non-success
\* response the action has failed: an Error entry with the venue message is
\* logged, no TradeRecord is appended, the step does not count as buy, sell
\* or profit-take, and no further request is made.
C6_VenueRejection ==
    Stepped =>
        \A i \in 1..Len(last.calls) :
            (IsOrder(last.calls[i]) /\ last.calls[i].resp \in {"rejected", "http_rejected"}) =>
                /\ \E j \in 1..Len(last.logs) :
                      /\ last.logs[j].level = "error"
                      /\ last.logs[j].message = "Failed: venue message"
                /\ last.trades = <<>>
                /\ last.ret \notin {"buy", "sell", "profit_taking"}
                /\ Len(Orders(last)) = 1

\* the step got no price, no bars, or fewer than 20 bars
DataUnavailable(r) == r.nbars < 20

\* C7: when the price fetch fails, the bars fetch fails or fewer than 20 bars
\* come back, the step sends no order or close, appends no TradeRecord, adds a
\* Warning entry to the Activity Ledger and fetches nothing twice.
C7_DataUnavailable ==
    (Stepped /\ DataUnavailable(last)) =>
        /\ Orders(last) = <<>>
        /\ last.trades = <<>>
        /\ \E j \in 1..Len(last.logs) : last.logs[j].level = "warning"
        /\ \A i, j \in 1..Len(last.calls) : last.calls[i].op = last.calls[j].op => i = j

\* C8: in every cycle each instrument of the list read at its start is
\* processed exactly once, whatever the outcome of the instruments before it:
\* when the cycle is over the steps taken are exactly the list.
CycleOver(t) == cycle_no[t] > 0 /\ pc[t] \in {"tick", "wait_mode", "dead"}

C8_EveryInstrumentOnce ==
    \A t \in Classes : CycleOver(t) => StepSymbols(events[t]) = symbols[t]

\* C9: within a cycle the instruments are processed one at a time in the order
\* of the symbol list, each step followed by the delay before the next one
\* starts, and a cycle of a class starts only when the previous cycle of that
\* class has run through its whole list.
C9_Sequential == \A t \in Classes : IsPrefix(events[t], Alternation(symbols[t]))

C9_NoOverlap ==
    \A t \in Classes :
        cycle_no'[t] # cycle_no[t] =>
            cycle_no[t] = 0 \/ events[t] = Alternation(symbols[t])

C9_Order == [](C9_Sequential) /\ [][C9_NoOverlap]_vars

C9_Witness ==
    /\ Len(symbols["stocks"]) >= 2
    /\ events["stocks"] = Alternation(symbols["stocks"])
    /\ last.task = "-"

\* C10: a mode switch requested while a cycle is in flight does not change the
\* symbol list of that cycle, and a cycle that starts reads the list of the
\* mode in force then, so the first cycle after the switch has the new list.
C10_ListKept ==
    \A t \in Classes :
        /\ (in_flight(t) /\ cycle_no'[t] = cycle_no[t]) => symbols'[t] = symbols[t]
        /\ cycle_no'[t] # cycle_no[t] => symbols'[t] = ModeSymbols(t, trading_mode')

C10_NotMidCycle ==
    \A t \in Classes :
        (api_pc = "wait_write" /\ in_flight(t) /\ t \in api_req.during) =>
            symbols[t] = ModeSymbols(t, trading_mode)

C10_ModeSwitch == [](C10_NotMidCycle) /\ [][C10_ListKept]_vars

C10_Witness ==
    /\ "stocks" \in api_req.during
    /\ api_req.mode = "Volatile"
    /\ api_pc = "idle"
    /\ cycle_no["stocks"] = 2
    /\ in_flight("stocks")
    /\ symbols["stocks"] = ModeSymbols("stocks", "Volatile")
    /\ symbols["stocks"] # ModeSymbols("stocks", "Hybrid")

\* the enable flag of class t
Flag(t) == IF t = "stocks" THEN trading_enabled ELSE crypto_trading_enabled

\* C11: a toggle takes effect only at the next tick: a task leaves its tick
\* for a cycle only when the flag reads true there, a tick that reads false
\* changes nothing (no gateway request, no order), and a cycle in flight ends
\* only after its whole list was walked, whatever the flag is set to meanwhile.
C11_TickReadsFlag ==
    \A t \in Classes :
        /\ (pc[t] = "tick" /\ pc'[t] # "tick") => Flag(t)
        /\ (pc[t] = "tick" /\ ~Flag(t)) =>
              /\ events'[t] = events[t]
              /\ cycle_no'[t] = cycle_no[t]
              /\ pc'[t] = "tick"
        /\ (in_flight(t) /\ pc'[t] = "tick") => events'[t] = Alternation(symbols[t])

C11_Toggle == [][C11_TickReadsFlag]_vars

\* the flag was set to false and a step of the equities cycle was taken after that
C11_Witness ==
    /\ ~trading_enabled
    /\ \E i, j \in 1..Len(logger) :
          /\ i < j
          /\ logger[i].message = "Trading DISABLED"
          /\ logger[j].category = "Price"

\* C12: critical sections are short: no task holds the lock on trading_mode
\* across a suspension point (the gateway calls of a step, the delay between
\* instruments), so a writer is never kept waiting by a cycle and no reader
\* waits behind a writer that a long-held read lock keeps waiting.
C12_ShortCriticalSections ==
    /\ \A t \in Classes : in_flight(t) => t \notin mode_readers
    /\ api_pc = "wait_write" => \A t \in Classes : ~in_flight(t)
    /\ \A t \in Classes :
          pc[t] = "wait_mode" =>
              ~(Head(mode_queue) = Waiter("set_trading_mode", "write") /\ mode_readers # {})

\* no call of ActivityLogger::log is in progress
LogQuiet == \A t \in LogTasks : log_pc[t] = "idle"

\* C13: after any log call completes the ledger stores at most max_logs (100)
\* entries, for every sequence of log calls, concurrent ones included.
C13_LedgerBound == LogQuiet => Cardinality(logs) <= max_logs

\* every log call so far ran alone and read a later time than the one before
OneByOne ==
    /\ LogQuiet
    /\ ~log_overlap
    /\ \A i \in 1..(Len(timestamps) - 1) : timestamps[i] < timestamps[i + 1]

\* the n most recent of k insertions
MostRecent(k, n) == (k - Min(k, n) + 1)..k

\* C14: on overflow the entry removed is one with the smallest timestamp; after
\* log calls made one by one with increasing timestamps the ledger holds
\* exactly the max_logs most recent entries (after N+5 insertions the 5 oldest
\* are gone and the entry just inserted is there), and get_logs returns the
\* stored entries newest first.
C14_OldestFound ==
    \A t \in LogTasks :
        (log_pc[t] = "find" /\ log_pc'[t] = "remove") =>
            \A i \in logs : timestamps[log_oldest'[t]] <= timestamps[i]

C14_NewestKept ==
    OneByOne =>
        /\ logs = MostRecent(Len(timestamps), 100)
        /\ get_logs(logs, timestamps)
              = [i \in 1..Cardinality(logs) |-> Len(timestamps) + 1 - i]

C14_Eviction == [](C14_NewestKept) /\ [][C14_OldestFound]_vars

C14_Witness ==
    /\ OneByOne
    /\ Len(timestamps) = 100 + 5
    /\ logs = 6..105

\* C15: the portfolio history never holds more than 100 snapshots, and after
\* k insertions it holds the most recent min(k, 100) of them in the order of
\* their insertion (after 105 insertions: 100 snapshots, the earliest being
\* insertion number 6); an insertion puts the new snapshot last.
C15_Ring ==
    LET k == portfolio_history[Len(portfolio_history)].no
        n == Min(k, 100)
    IN  /\ Len(portfolio_history) <= 100
        /\ [i \in 1..Len(portfolio_history) |-> portfolio_history[i].no]
              = [i \in 1..n |-> k - n + i]

C15_Pushed ==
    portfolio_history' # portfolio_history =>
        portfolio_history'[Len(portfolio_history')].no
            = portfolio_history[Len(portfolio_history)].no + 1

C15_PortfolioRing == [](C15_Ring) /\ [][C15_Pushed]_vars

C15_Witness ==
    /\ Len(portfolio_history) = 100
    /\ portfolio_history[1].no = 6
    /\ portfolio_history[100].no = 105

\* C16: the trade ledger is append-only: every step of every task leaves it
\* as it was or with records added at its end; no record is changed, moved
\* or removed.
C16_Appended == IsPrefix(trade_history, trade_history')

C16_AppendOnly == [][C16_Appended]_vars

\* a record of the automatic cycle followed by a record of a manual close
C16_Witness ==
    /\ Len(trade_history) = 2
    /\ trade_history[1].action = "BUY"
    /\ trade_history[2] = TradeRecord("BTCUSD", "SELL", 5, 114)

\* New York time t is Monday to Friday, 09:30 <= time < 16:00
InSession(t) == t.weekday \in 1..5 /\ 570 <= t.minutes /\ t.minutes < 960

\* C17: an equities cycle runs only on a tick that read a New York time in
\* the window Monday-Friday, 09:30 <= time < 16:00; a tick outside the window
\* is skipped entirely: the task stays at its tick and no request or order is
\* made for any equity.  The crypto cycle is not gated.
C17_CycleInSession ==
    /\ pc["stocks"] # "tick" => InSession(now)
    /\ (pc["crypto"] = "tick" /\ crypto_trading_enabled) =>
          ENABLED (CryptoTick /\ pc'["crypto"] = "wait_mode")

C17_SkippedTick ==
    (pc["stocks"] = "tick" /\ ~InSession(ny_time)) =>
        /\ pc'["stocks"] = "tick"
        /\ events'["stocks"] = events["stocks"]
        /\ cycle_no'["stocks"] = cycle_no["stocks"]
        /\ last' = last \/ last'.task # "stocks"

C17_MarketGate == [](C17_CycleInSession) /\ [][C17_SkippedTick]_vars

\* a tick on a Saturday was skipped, and a crypto step was taken on that day
C17_Witness ==
    /\ pc["stocks"] = "tick"
    /\ cycle_no["stocks"] = 0
    /\ now = NYTime(6, 570)
    /\ ny_time = now
    /\ last.task = "crypto"

\* the order-submission requests of step r, in order
Submitted(r) ==
    SelectSeq(r.calls, LAMBDA c : c.op \in {"place_order", "place_crypto_order"})

\* q whole shares at price cost no more than 5% of buying power bp and no
\* more than 5000 dollars, and q + 1 shares cost more than one of the two
FloorOfSize(q, bp, price) ==
    /\ 20 * q * price <= bp
    /\ q * price <= 5000
    /\ 20 * (q + 1) * price > bp \/ (q + 1) * price > 5000

\* C18: when an equity BUY is decided, the quantity submitted is
\* floor(min(buying_power * 0.05, 5000) / current_price) whole shares, and it
\* is the quantity of the TradeRecord of a filled order; for buying power
\* 10000 and price 150 the quantity is 3.
C18_BuySizing ==
    (Stepped /\ last.task = "stocks") =>
        /\ \A i \in 1..Len(Submitted(last)) :
              /\ FloorOfSize(Submitted(last)[i].qty, venue.buying_power, venue.price)
              /\ (venue.buying_power = 10000 /\ venue.price = 150) =>
                    Submitted(last)[i].qty = 3
        /\ \A i \in 1..Len(last.trades) :
              /\ Len(Submitted(last)) = 1
              /\ last.trades[i].quantity = Submitted(last)[1].qty

\* buying power 10000, price 150: 3 shares were ordered and recorded
C18_Witness ==
    /\ venue = Venue(10000, 150)
    /\ last.task = "stocks"
    /\ Len(Submitted(last)) = 1
    /\ Submitted(last)[1].qty = 3
    /\ Len(last.trades) = 1
    /\ last.trades[1].quantity = 3

\* C19: no order with a non-positive quantity is ever submitted, for equities
\* (whole shares) and for crypto (the quantity at 6 decimals, in millionths):
\* a step whose quantity as the venue receives it is 0 or less sends no order
\* request.
C19_PositiveQuantity ==
    Stepped => \A i \in 1..Len(Submitted(last)) : Submitted(last)[i].qty > 0

\* step r read the positions and no rule fires on what it read: the
\* instrument is not held and the signal is at most the buy threshold, or it
\* is held with a gain below the profit threshold and the signal is at least
\* minus the sell threshold
NoRuleFires(r) ==
    /\ r.task # "-"
    /\ ReadPositions(r)
    /\ \/ ~Held(r) /\ r.signal <= SignalThreshold(r.task)
       \/ /\ Held(r)
          /\ ~HeldWithGain(r, ProfitThreshold(r.task))
          /\ r.signal >= -SignalThreshold(r.task)

\* C20: HOLD is a no-op: a step in which no rule fires sends no order or
\* close request, appends nothing to the trade ledger and reports the
\* neutral outcome.
C20_NoRequest ==
    NoRuleFires(last) =>
        /\ Orders(last) = <<>>
        /\ last.trades = <<>>
        /\ last.ret = "neutral"

C20_LedgerKept == NoRuleFires(last') => trade_history' = trade_history

C20_Hold == [](C20_NoRequest) /\ [][C20_LedgerKept]_vars

\* an instrument held below the profit threshold, the signal exactly at minus
\* the sell threshold: the step ended neutral with no request
C20_Witness ==
    /\ NoRuleFires(last)
    /\ Held(last)
    /\ last.signal = -SignalThreshold(last.task)
    /\ last.task = "stocks"
    /\ last.ret = "neutral"
    /\ Orders(last) = <<>>

\* the count the summary entry of a cycle carries for the steps that ended
\* with outcome, -1 when it carries none for it
SummaryCount(entry, outcome) ==
    IF outcome = "buy" THEN entry.message[3]
    ELSE IF outcome = "sell" THEN entry.message[4]
    ELSE -1

\* the summary entry task t would log with its counters c
SummaryOf(t, c) == summary(IF t = "stocks" THEN "Stocks" ELSE "Crypto", c)

\* C21: the summary event logged at the end of a cycle carries the counts of
\* buys, sells, profit-takes, neutrals and failures of that cycle, each equal
\* to the number of instruments whose step ended with that outcome: every
\* step that ends with one of these outcomes raises by one the count the
\* summary carries for it.
C21_SummaryCounts ==
    [][\A t \in Classes :
          (pc[t] = "step" /\ pc'[t] = "sleep"
             /\ last'.ret \in {"buy", "sell", "profit_taking", "neutral", "Err"}) =>
              SummaryCount(SummaryOf(t, counts'[t]), last'.ret)
                  = SummaryCount(SummaryOf(t, counts[t]), last'.ret) + 1]_vars

\* C22: when get_account fails in the portfolio tracking loop no snapshot is
\* appended, the task goes to its fixed sleep and from there back to its
\* tick; the task is never anywhere else than at its tick or in that sleep.
C22_TaskRuns ==
    /\ portfolio_task.pc \in {"tick", "backoff"}
    /\ portfolio_task.pc = "backoff" =>
          /\ portfolio_task.account = "err"
          /\ ENABLED PortfolioBackoff

C22_NoSnapshot ==
    /\ portfolio_task'.account = "err" => portfolio_history' = portfolio_history
    /\ (portfolio_task.pc = "tick" /\ portfolio_task' # portfolio_task
          /\ portfolio_history' = portfolio_history) =>
            portfolio_task' = PortfolioTask("backoff", "err")
    /\ (portfolio_task.pc = "backoff" /\ portfolio_task' # portfolio_task) =>
            portfolio_task'.pc = "tick"

C22_AccountFailure ==
    /\ [](C22_TaskRuns)
    /\ [][C22_NoSnapshot]_vars
    /\ (portfolio_task.pc = "backoff") ~> (portfolio_task.pc = "tick")

\* a full history, then a failed get_account and the sleep after it: the
\* task is back at its tick and the history is the one main left
C22_Witness ==
    /\ portfolio_task = PortfolioTask("tick", "err")
    /\ Len(portfolio_history) = PORTFOLIO_CAP
    /\ portfolio_history[PORTFOLIO_CAP].no = PORTFOLIO_CAP
    /\ ledger_ops = MaxSnapshots - 1

\* C23: no error is fatal: whatever the gateways answer (failures,
\* rejections, any order response with any order id), no scheduler task is
\* ever terminated; each is at its tick, waiting for the mode, or inside its
\* cycle.
C23_NoFatalError ==
    \A t \in Classes : pc[t] \in {"tick", "wait_mode", "step", "sleep"}

\* C24: get_positions returns the empty list on every venue error and never
\* an error, whatever the failure: non-success status, transport failure,
\* unparsable body.
C24_PositionsNeverErr ==
    reply.op = "get_positions" =>
        /\ reply.result = "Ok"
        /\ (wire.positions.kind # "ok" => reply.value = <<>>)

\* a price is to be had from the response r to the bars request
BarAvailable(r) == r.kind = "ok" /\ r.body # <<>>

\* a price is to be had from the response r to the latest-trade request
TradeAvailable(r) == r.kind = "ok" /\ r.body # <<>> /\ Head(r.body) > 0

\* the latest-price call returned the trade price when there is one, else the
\* close of the latest bar when there is one, else an error
LatestPrice(primary, fallback) ==
    IF TradeAvailable(primary)
    THEN reply.result = "Ok" /\ reply.value = <<Head(primary.body)>>
    ELSE IF BarAvailable(fallback)
    THEN reply.result = "Ok" /\ reply.value = <<Head(fallback.body)>>
    ELSE reply.result = "Err"

\* C25: the latest-price call of both gateways returns the executed-trade
\* price when one is available, never a bid or an ask; it falls back to the
\* close of the latest bar when the primary request fails or yields no price,
\* and returns an error only when no price is available through any path.
C25_LatestPrice ==
    /\ reply.op \in {"get_latest_quote", "get_latest_crypto_price"} =>
          reply.source \in {"trade", "bar", "-"}
    /\ reply.op = "get_latest_quote" => LatestPrice(wire.trade, wire.stock_bars)
    /\ (/\ reply.op = "get_latest_crypto_price"
        /\ ~(wire.quote.kind = "ok" /\ wire.quote.body # <<>>)
        /\ BarAvailable(wire.crypto_bars)) =>
          (reply.result = "Ok" /\ reply.value = <<Head(wire.crypto_bars.body)>>)

\* C26: every sentiment score held in the cache, and every value returned by
\* get_sentiment, lies in [-1, 1] after any sequence of REST polling updates
\* and WebSocket news messages.
C26_SentimentRange ==
    /\ \A symbol \in DOMAIN sentiment_cache :
          -1000 <= sentiment_cache[symbol] /\ sentiment_cache[symbol] <= 1000
    /\ reply.op = "get_sentiment" =>
          (-1000 <= Head(reply.value) /\ Head(reply.value) <= 1000)

\* C27: get_sentiment always returns a value: 0.0 for a symbol with nothing
\* cached, otherwise the score most recently written for the symbol; the
\* read leaves the cache as it is, and a write is what the next read of its
\* symbols returns.
C27_Read ==
    reply.op = "get_sentiment" =>
        /\ reply.result = "Ok"
        /\ reply.source \notin DOMAIN sentiment_cache => reply.value = <<0>>
        /\ reply.source \in DOMAIN sentiment_cache =>
              reply.value = <<sentiment_cache[reply.source]>>

C27_Written ==
    /\ reply'.op = "get_sentiment" => sentiment_cache' = sentiment_cache
    /\ (reply'.op \in {"get_news_sentiment", "process_news_message"}
          /\ reply'.result = "Ok" /\ reply'.value # <<>>) =>
            /\ \A i \in 1..Len(reply'.source) :
                  /\ reply'.source[i] \in DOMAIN sentiment_cache'
                  /\ sentiment_cache'[reply'.source[i]] = Head(reply'.value)
            /\ \A symbol \in DOMAIN sentiment_cache :
                  (\A i \in 1..Len(reply'.source) : reply'.source[i] # symbol) =>
                      /\ symbol \in DOMAIN sentiment_cache'
                      /\ sentiment_cache'[symbol] = sentiment_cache[symbol]

C27_CacheRead == [](C27_Read) /\ [][C27_Written]_vars

\* AAPL holds the score a news message wrote, and the read of a symbol never
\* written returned 0
C27_Witness ==
    /\ reply.op = "get_sentiment"
    /\ reply.source = "BTC/USD"
    /\ reply.value = <<0>>
    /\ "AAPL" \in DOMAIN sentiment_cache
    /\ sentiment_cache["AAPL"] = 700
    /\ "BTC/USD" \notin DOMAIN sentiment_cache

\* C28: for every bar series of fewer than 20 bars and every sentiment,
\* generate_signal returns exactly 0.0: no indicator term, no sentiment and
\* no perturbation is applied.
C28_ShortSeries ==
    (reply.op = "generate_signal" /\ Len(bars) < 20) => reply.value = Float(0)

\* 19 bars, a sentiment of 1, the largest perturbation: the signal is 0
C28_Witness ==
    /\ reply.op = "generate_signal"
    /\ Len(bars) = 19
    /\ reply.sentiment = 1000
    /\ reply.boost = 124
    /\ reply.value = Float(0)

\* C29: for every bar series and every sentiment in [-1, 1] the value
\* generate_signal returns lies in [-1, 1], whatever its terms add up to.
C29_SignalRange ==
    (reply.op = "generate_signal"
       /\ -1000 <= reply.sentiment /\ reply.sentiment <= 1000) =>
        /\ ~reply.value.nan
        /\ -1000 <= reply.value.v
        /\ reply.value.v <= 1000

\* a series is strictly increasing
Increasing(closes) == \A i \in 1..(Len(closes) - 1) : closes[i] < closes[i + 1]

\* C30: calculate_rsi(bars, period) returns 100.0 on every strictly
\* increasing series of at least period + 1 closes, and no value on fewer
\* than period + 1 bars.
C30_Rsi ==
    reply.op = "calculate_rsi" =>
        /\ Len(bars) < reply.period + 1 => reply.value = <<>>
        /\ (Len(bars) >= reply.period + 1 /\ Increasing(bars)) => reply.value = <<100000>>

\* 15 rising closes and period 14: the series is just long enough
C30_Witness ==
    /\ reply.op = "calculate_rsi"
    /\ reply.period = 14
    /\ Len(bars) = 15
    /\ Increasing(bars)
    /\ reply.value = <<100000>>

\* the closes of a series from index i on, added up
RECURSIVE SumFrom(_, _)
SumFrom(closes, i) ==
    IF i > Len(closes) THEN 0 ELSE closes[i] + SumFrom(closes, i + 1)

C32_Independent ==
    /\ (pc["stocks"] = "wait_mode" /\ in_flight("crypto")) => ENABLED StockCycleStart
    /\ (pc["crypto"] = "wait_mode" /\ in_flight("stocks")) => ENABLED CryptoCycleStart

\* the Ends of the cycle's SELL of symbol on the gateway state a manual close
\* saw: the same position list, any latest price of the instrument's class
CycleSell(symbol, positions) ==
    IF is_crypto(symbol)
    THEN UNION { crypto_sell(symbol, p, positions) : p \in CryptoPrices }
    ELSE UNION { stock_sell(symbol, p, positions) : p \in StockPrices }

SameEffect(e, h) ==
    /\ e.ret = "sell"
    /\ Len(e.calls) = 1 /\ Len(h.calls) = 1
    /\ e.calls[1].op = h.calls[1].op
    /\ e.calls[1].resp = h.calls[1].resp
    /\ e.trades = h.trades
    /\ \E i \in 1..Len(h.logs) :
          h.logs[i].category = "Trade" /\ h.logs[i].symbol = h.symbol

\* C33: a manual close of a held instrument has the observable effect of the
\* cycle's SELL of that instrument on the same gateway state: one close
\* request to the gateway of its class, one SELL TradeRecord with the same
\* quantity and price, and one trade entry for the instrument in the
\* Activity Ledger.
C33_SameAsCycle ==
    (manual.handler = "book_profit_single" /\ manual.ret = "OK") =>
        \E e \in CycleSell(manual.symbol, manual.positions) : SameEffect(e, manual)

\* a step of the handler h
Handles(h) == ops' < ops /\ manual'.handler = h

Unlisted(h) == h.read = "err" \/ ~has_position(h.positions, h.symbol)

Refused(h) == Len(h.calls) = 1 /\ h.calls[1].resp # "http_ok"

\* C38: book_profit_single for a symbol the position list does not hold, or
\* when the position read fails, returns NOT_FOUND, sends no close request
\* and leaves both ledgers as they were; when the close request fails
\* (transport failure or a non-success answer) it returns an error and
\* appends no TradeRecord.
C38_Step ==
    Handles("book_profit_single") =>
        /\ Unlisted(manual') =>
              /\ manual'.ret = "NOT_FOUND"
              /\ manual'.calls = <<>>
              /\ trade_history' = trade_history
              /\ logger' = logger
        /\ Refused(manual') =>
              /\ manual'.ret \in {"NOT_FOUND", "INTERNAL_SERVER_ERROR"}
              /\ trade_history' = trade_history

C38_NotFoundOrFailed == [][C38_Step]_vars

Appended(history, after) == SubSeq(after, Len(history) + 1, Len(after))

\* C39: book_all_profits sends one close request for every position of the
\* list it read, in list order, whatever the earlier requests answered; the
\* closed_count and failed_count it returns add up to the number of positions
\* read, and it appends closed_count SELL records.
C39_Step ==
    (Handles("book_all_profits") /\ manual'.read = "ok") =>
        /\ Len(manual'.calls) = Len(manual'.positions)
        /\ \A i \in 1..Len(manual'.positions) :
              manual'.calls[i].symbol = manual'.positions[i].symbol
        /\ manual'.json[1] + manual'.json[2] = Len(manual'.positions)
        /\ IsPrefix(trade_history, trade_history')
        /\ Len(Appended(trade_history, trade_history')) = manual'.json[1]
        /\ \A i \in 1..manual'.json[1] :
              Appended(trade_history, trade_history')[i].action = "SELL"

C39_EveryPositionOnce == [][C39_Step]_vars

\* two positions read, the first close request failed, the second answered
C39_Witness ==
    /\ manual.handler = "book_all_profits"
    /\ Len(manual.positions) = 2
    /\ manual.calls[1].resp = "neterr"
    /\ manual.calls[2].resp = "http_ok"
    /\ manual.json = <<1, 1>>
    /\ Len(trade_history) >= 1

\* step r asked for the position list and the call returned an error
FailedPositionRead(r) ==
    \E i \in 1..Len(r.calls) : r.calls[i] = Call("get_positions", "", "err")

IsBuy(c) == c.op \in {"place_order", "place_crypto_order"}

\* C35: an instrument step whose position read failed submits no BUY order,
\* for equities and for crypto.
C35_NoBuyOnFailedRead ==
    (Stepped /\ FailedPositionRead(last)) => SelectSeq(last.calls, IsBuy) = <<>>

\* the position list step r read holds the pair in a shape the classifier
\* takes for crypto: with the separator, or suffixed with the quote currency
HeldInEitherShape(r) ==
    \E i \in 1..Len(r.positions) :
        /\ r.positions[i].symbol \in {r.sym, Unslashed(r.sym)}
        /\ is_crypto(r.positions[i].symbol)

\* C36: a crypto step whose position list holds the pair, with the separator
\* or as a quote-currency-suffixed symbol, treats the pair as held and
\* submits no BUY for it.
C36_HeldPairNotBought ==
    (Stepped /\ last.task = "crypto" /\ HeldInEitherShape(last)) =>
        SelectSeq(last.calls, IsBuy) = <<>>

SellsOf(symbol) ==
    { i \in 1..Len(trade_history) :
        trade_history[i].symbol = symbol /\ trade_history[i].action = "SELL" }

\* C34: every instrument is held once at the venue and never bought again, so
\* the trade ledger holds at most one SELL record of each instrument, in every
\* interleaving of the cycle's signal sell with book_profit_single and
\* book_all_profits.
C34_OneSellPerHolding ==
    \A symbol \in {"AAPL", "TSLA"} : Cardinality(SellsOf(symbol)) <= 1

Waits(t) == lock_pc[t].at = "wait"

\* C37: every task that waits for a lock of AppState is granted it, in
\* every interleaving of the three loops and the API handlers, the gateway
\* calls returning; so no set of tasks ever wait for each other for ever.
C37_EveryLockGranted == \A t \in LockTasks : Waits(t) ~> ~Waits(t)

\* set_trading_mode waits for its write guard while both cycles hold their
\* read guards, the crypto loop waits behind it for trade_history, which the
\* equities cycle holds
C37_Witness ==
    /\ Waits("api")
    /\ locks["trading_mode"].queue = <<Guard("api", "write")>>
    /\ locks["trading_mode"].holders =
          {Guard("trading_loop", "read"), Guard("crypto_trading_loop", "read")}
    /\ Waits("crypto_trading_loop")
    /\ locks["trade_history"].holders = {Guard("trading_loop", "write")}

====
